---- MODULE Spec2Model ----
(***************************************************************************)
(* Model of blocks-production-lib: the resilient JSON-RPC transport        *)
(* (client.rs, make_rpc_request and the public fetch operations built on   *)
(* it), the error taxonomy (error.rs, ErrorExt) and the analytics engine   *)
(* (client.rs, calculate_*; types.rs).                                     *)
(*                                                                         *)
(* Spec     : one client instance issuing calls; every suspension point    *)
(*            of a call (limiter acquisition, HTTP send, inter-retry       *)
(*            sleep) is one step.                                          *)
(* SpecErr  : the ErrorExt queries applied to error values of every kind.  *)
(* SpecData : the analytics engine (process_block_production_response and  *)
(*            the calculate_* functions) applied to byIdentity maps.       *)
(* SpecBuild: the construction paths of the client (new, from_config,      *)
(*            ClientBuilder) applied to chains of builder calls.           *)
(* SpecFleet: the analytics engine applied to networks of more than twenty  *)
(*            validators (the alert rules).                                *)
(* SpecViews: the derived view get_moderate_performers over a response.    *)
(* SpecOrder: the same response processed repeatedly, the map iterated in  *)
(*            any order.                                                   *)
(***************************************************************************)
EXTENDS Integers, Sequences, FiniteSets, TLC

VARIABLES
    retry_attempts,   \* ClientConfig.retry_attempts
    rate_limiter,     \* ClientConfig.rate_limiter.is_some()
    pc,               \* position of the call in flight
    call,             \* public operation in flight and its arguments
    request,          \* JSON-RPC envelope handed to make_rpc_request
    attempt,          \* loop variable of make_rpc_request
    error_history,    \* local Vec<String> of make_rpc_request
    sleep_ms,         \* duration of the pending tokio::time::sleep
    tokens,           \* limiter acquisitions made by the call in flight
    wire,             \* requests put on the wire by the call in flight
    last_outcome,     \* what the latest HTTP send came back with
    rpc_result,       \* what make_rpc_request returned
    result,           \* what the public operation returned
    probe,            \* an error value and the answers of its ErrorExt queries
    by_identity,      \* result.value.byIdentity of a response, in iteration order
    production,       \* what process_block_production_response made of it
    builder           \* a ClientBuilder: its configuration and the calls made on it

vars == <<retry_attempts, rate_limiter, pc, call, request, attempt,
          error_history, sleep_ms, tokens, wire, last_outcome, rpc_result,
          result, probe, by_identity, production, builder>>

(***************************************************************************)
(* Bounds                                                                  *)
(***************************************************************************)
MaxAttempts == 3
MaxSlot == 1

Slots == 0..MaxSlot

(***************************************************************************)
(* Option<u64> / Option<Duration> : None is -1                             *)
(***************************************************************************)
None == -1

(***************************************************************************)
(* Error values (error.rs, BlockProductionError).  One record shape for    *)
(* every variant; a field a variant does not have keeps its default.       *)
(***************************************************************************)
ErrBase ==
    [kind |-> "-", status |-> 0, is_timeout |-> FALSE, is_connect |-> FALSE,
     retry_after |-> None, code |-> 0, auth_type |-> "-", range |-> <<>>,
     attempts |-> 0, last_error |-> "-", error_history |-> <<>>,
     category |-> "-", wrapped |-> "-", endpoint_reachable |-> "-",
     timeout_type |-> "-"]

NoErr == ErrBase

TimeoutErr == [ErrBase EXCEPT !.kind = "Timeout", !.timeout_type = "Request"]

\* ConnectionFailed { source, endpoint_reachable }: source by the kind of the
\* error it boxes
ConnectionFailedErr(source, reachable) ==
    [ErrBase EXCEPT !.kind = "ConnectionFailed", !.wrapped = source,
                    !.endpoint_reachable = reachable]

\* Http { source: reqwest::Error }: the source either carries a status
\* (error_for_status) or is a transport error with its two flags.
HttpErr(status, t, c) ==
    [ErrBase EXCEPT !.kind = "Http", !.status = status,
                    !.is_timeout = t, !.is_connect = c]

RateLimitErr(retry_after) ==
    [ErrBase EXCEPT !.kind = "RateLimit", !.retry_after = retry_after]

AuthErr(auth_type) == [ErrBase EXCEPT !.kind = "Auth", !.auth_type = auth_type]

ResponseParsingErr == [ErrBase EXCEPT !.kind = "ResponseParsing"]

RpcErr(code) == [ErrBase EXCEPT !.kind = "Rpc", !.code = code]

InvalidSlotRangeErr(first, last) ==
    [ErrBase EXCEPT !.kind = "InvalidSlotRange", !.range = <<first, last>>]

RetryExhaustedErr(n, hist) ==
    [ErrBase EXCEPT !.kind = "RetryExhausted", !.attempts = n,
                    !.last_error = "Timeout", !.error_history = hist]

JsonErr == [ErrBase EXCEPT !.kind = "Json"]

\* NoData { requested_range }: <<>> is None
NoDataErr(range) == [ErrBase EXCEPT !.kind = "NoData", !.range = range]

(***************************************************************************)
(* Results: tag is "none" (nothing returned yet), "Ok", "Err" or "Panic".  *)
(***************************************************************************)
NoBody ==
    [json |-> FALSE, has_error |-> FALSE, has_code |-> FALSE, code |-> 0,
     result |-> "absent", range |-> <<>>]

\* ResponseMetadata (types.rs 458-469), present on a debug fetch only
NoMeta == [present |-> FALSE, retry_attempts |-> 0, rate_limited |-> FALSE]

NoResult ==
    [tag |-> "none", value |-> "-", body |-> NoBody, err |-> NoErr, meta |-> NoMeta]

\* Ok(json) of make_rpc_request
OkResult(body) == [NoResult EXCEPT !.tag = "Ok", !.body = body]

\* Ok(v) of a public operation
OkValue(v) == [NoResult EXCEPT !.tag = "Ok", !.value = v]

ErrResult(e) == [NoResult EXCEPT !.tag = "Err", !.err = e]

PanicResult == [NoResult EXCEPT !.tag = "Panic"]

(***************************************************************************)
(* What one HTTP send can come back with.                                  *)
(*   elapsed     : the outer tokio timeout fired (Err(_))                  *)
(*   reqwest_err : send() failed (Ok(Err(e))), e.is_timeout()/is_connect() *)
(*   response    : a response with status, Retry-After header and body     *)
(***************************************************************************)
Statuses == {101, 200, 304, 401, 403, 404, 429, 500, 503, 600}

\* Retry-After header: absent, or present with a text (sequence of chars).
AbsentHeader == [present |-> FALSE, text |-> <<>>]

Header(text) == [present |-> TRUE, text |-> text]

RetryAfterHeaders ==
    {AbsentHeader, Header(<<>>), Header(<<"0">>), Header(<<"1">>),
     Header(<<"1", "0">>), Header(<<"+", "2">>), Header(<<"-", "1">>),
     Header(<<"1", ".", "5">>), Header(<<"x">>), Header(<<"0xE9">>),
     Header(<<"+">>)}

\* result.value.range of a well-formed result
ResponseRange == <<0, 1>>

JsonBody(has_error, has_code, code, res) ==
    [json |-> TRUE, has_error |-> has_error, has_code |-> has_code,
     code |-> code, result |-> res,
     range |-> IF res \in {"empty", "data"} THEN ResponseRange ELSE <<>>]

RpcCodes == {-32603, -32000, -32601}

ResultKinds == {"absent", "malformed", "empty", "data"}

Bodies ==
    {NoBody}
    \cup {JsonBody(TRUE, TRUE, c, "absent") : c \in RpcCodes}
    \cup {JsonBody(TRUE, FALSE, 0, "absent"), JsonBody(TRUE, TRUE, -32603, "data")}
    \cup {JsonBody(FALSE, FALSE, 0, r) : r \in ResultKinds}

OutcomeBase ==
    [type |-> "-", is_timeout |-> FALSE, is_connect |-> FALSE, status |-> 0,
     retry_after |-> AbsentHeader, body |-> NoBody]

NoOutcome == OutcomeBase

is_success(status) == status >= 200 /\ status <= 299

Outcomes ==
    {[OutcomeBase EXCEPT !.type = "elapsed"]}
    \cup {[OutcomeBase EXCEPT !.type = "reqwest_err", !.is_timeout = t,
                              !.is_connect = c] : t \in BOOLEAN, c \in BOOLEAN}
    \cup {[OutcomeBase EXCEPT !.type = "response", !.status = 429,
                              !.retry_after = h] : h \in RetryAfterHeaders}
    \cup {[OutcomeBase EXCEPT !.type = "response", !.status = s, !.body = b] :
              s \in {t \in Statuses : is_success(t)}, b \in Bodies}
    \cup {[OutcomeBase EXCEPT !.type = "response", !.status = s] :
              s \in {t \in Statuses : ~is_success(t) /\ t # 429}}

(***************************************************************************)
(* Retry-After parsing: HeaderValue::to_str, then str::parse::<u64>.       *)
(***************************************************************************)
DigitVal ==
    [c \in {"0", "1", "2", "3", "4", "5", "6", "7", "8", "9"} |->
        CASE c = "0" -> 0 [] c = "1" -> 1 [] c = "2" -> 2 [] c = "3" -> 3
          [] c = "4" -> 4 [] c = "5" -> 5 [] c = "6" -> 6 [] c = "7" -> 7
          [] c = "8" -> 8 [] c = "9" -> 9]

VisibleAscii ==
    DOMAIN DigitVal \cup {"+", "-", ".", "x", " "}

\* HeaderValue::to_str(): Err when a byte is not visible ASCII
to_str_ok(text) == \A i \in 1..Len(text) : text[i] \in VisibleAscii

RECURSIVE DigitsToNat(_)
DigitsToNat(s) ==
    IF s = <<>> THEN 0
    ELSE DigitsToNat(SubSeq(s, 1, Len(s) - 1)) * 10 + DigitVal[s[Len(s)]]

\* str::parse::<u64>(): an optional leading "+", then one or more digits
parse_u64(text) ==
    LET digits == IF Len(text) > 0 /\ text[1] = "+" THEN Tail(text) ELSE text
    IN IF Len(digits) = 0 \/ \E i \in 1..Len(digits) : digits[i] \notin DOMAIN DigitVal
       THEN None
       ELSE DigitsToNat(digits)

\* .get("retry-after").and_then(to_str().ok()).and_then(parse().ok()),
\* in whole seconds
retry_after_secs(header) ==
    IF ~header.present THEN None
    ELSE IF ~to_str_ok(header.text) THEN None
    ELSE parse_u64(header.text)

(***************************************************************************)
(* reqwest::Response::error_for_status: Err exactly for 4xx and 5xx.       *)
(***************************************************************************)
error_for_status_is_err(status) == status >= 400 /\ status <= 599

\* response.error_for_status().unwrap_err() wrapped in Http: panics when
\* error_for_status returned Ok
HttpFromStatus(status) ==
    IF error_for_status_is_err(status)
    THEN ErrResult(HttpErr(status, FALSE, FALSE))
    ELSE PanicResult

(***************************************************************************)
(* make_rpc_request (client.rs 361-637)                                    *)
(***************************************************************************)
\* one entry of error_history: the format! strings, by their parts
HistoryEntry(what, n, detail, num) ==
    [what |-> what, attempt |-> n, detail |-> detail, num |-> num]

ReqwestErrText(o) ==
    IF o.is_timeout THEN "timeout" ELSE IF o.is_connect THEN "connect" ELSE "other"

\* a step of the loop body ends in one of:
\*   "return"   : return from make_rpc_request with res
\*   "continue" : next iteration at once
\*   "sleep"    : tokio::time::sleep(sleep ms), then next iteration
Step(next, res, hist, sleep) ==
    [next |-> next, res |-> res, hist |-> hist, sleep |-> sleep]

\* `if attempt == max_attempts { return Err(e) } continue`
FinalOrContinue_NeverFinal(n, max_attempts, e, hist) ==
    Step("continue", NoResult, hist, 0)

FinalOrContinue(n, max_attempts, e, hist) ==
    IF n = max_attempts
    THEN Step("return", ErrResult(e), hist, 0)
    ELSE Step("continue", NoResult, hist, 0)

\* Err(_) arm: the per-attempt timeout elapsed (457-475)
OnElapsed(n, max_attempts, hist) ==
    FinalOrContinue(n, max_attempts, TimeoutErr,
                    Append(hist, HistoryEntry("Request timeout", n, "-", 0)))

\* Ok(Err(e)) arm: send() failed (421-456)
OnReqwestErr(n, max_attempts, o, hist) ==
    LET h == Append(hist, HistoryEntry("HTTP error", n, ReqwestErrText(o), 0))
    IN IF o.is_timeout THEN FinalOrContinue(n, max_attempts, TimeoutErr, h)
       ELSE IF o.is_connect
       THEN FinalOrContinue(n, max_attempts, ConnectionFailedErr("reqwest", "None"), h)
       ELSE Step("return", ErrResult(HttpErr(0, o.is_timeout, o.is_connect)), h, 0)

\* 429 arm that never reads the Retry-After header
On429_HeaderIgnored(n, max_attempts, o, hist) ==
    IF n = max_attempts
    THEN Step("return", ErrResult(RateLimitErr(None)), hist, 0)
    ELSE Step("sleep", NoResult, hist, 100 * n)

\* 429 arm (492-521)
On429(n, max_attempts, o, hist) ==
    LET retry_after == retry_after_secs(o.retry_after)
    IN IF n = max_attempts
       THEN Step("return", ErrResult(RateLimitErr(retry_after)), hist, 0)
       ELSE IF retry_after # None
       THEN Step("sleep", NoResult, hist, retry_after * 1000)
       ELSE Step("sleep", NoResult, hist, 100 * n)

\* 500..=599 arm that backs off before the next attempt
On5xx_Backoff(n, max_attempts, o, hist) ==
    IF n = max_attempts
    THEN Step("return", HttpFromStatus(o.status), hist, 0)
    ELSE Step("sleep", NoResult, hist, 100 * n)

\* 500..=599 arm (533-542)
On5xx(n, max_attempts, o, hist) ==
    IF n = max_attempts
    THEN Step("return", HttpFromStatus(o.status), hist, 0)
    ELSE Step("continue", NoResult, hist, 0)

\* `if !status.is_success()` block (480-550)
OnErrorStatus(n, max_attempts, o, hist) ==
    LET h == Append(hist, HistoryEntry("HTTP status error", n, "-", o.status))
    IN CASE o.status = 429 -> On429(n, max_attempts, o, h)
         [] o.status \in {401, 403} ->
               Step("return",
                    ErrResult(AuthErr(IF o.status = 401 THEN "InvalidApiKey"
                                                        ELSE "QuotaExceeded")),
                    h, 0)
         [] o.status >= 500 /\ o.status <= 599 -> On5xx(n, max_attempts, o, h)
         [] OTHER -> Step("return", HttpFromStatus(o.status), h, 0)

\* error.get("code").and_then(as_i64).unwrap_or(-1)
error_code(body) == IF body.has_code THEN body.code ELSE -1

\* 2xx handling that retries the Rpc codes is_retryable() accepts
OnSuccessStatus_RpcRetried(n, o, hist) ==
    IF ~o.body.json
    THEN Step("return", ErrResult(ResponseParsingErr),
              Append(hist, HistoryEntry("JSON parsing error", n, "-", 0)), 0)
    ELSE IF o.body.has_error
    THEN LET h == Append(hist, HistoryEntry("RPC error", n, "-", error_code(o.body)))
         IN IF error_code(o.body) \in {-32603, -32000}
            THEN FinalOrContinue(n, retry_attempts, RpcErr(error_code(o.body)), h)
            ELSE Step("return", ErrResult(RpcErr(error_code(o.body))), h, 0)
    ELSE Step("return", OkResult(o.body), hist, 0)

\* 2xx: parse the body, look for an error object (552-615)
OnSuccessStatus(n, o, hist) ==
    IF ~o.body.json
    THEN Step("return", ErrResult(ResponseParsingErr),
              Append(hist, HistoryEntry("JSON parsing error", n, "-", 0)), 0)
    ELSE IF o.body.has_error
    THEN Step("return", ErrResult(RpcErr(error_code(o.body))),
              Append(hist, HistoryEntry("RPC error", n, "-", error_code(o.body))), 0)
    ELSE Step("return", OkResult(o.body), hist, 0)

\* the body of `for attempt in 1..=max_attempts` for one outcome of the send
LoopBody(n, max_attempts, o, hist) ==
    CASE o.type = "elapsed" -> OnElapsed(n, max_attempts, hist)
      [] o.type = "reqwest_err" -> OnReqwestErr(n, max_attempts, o, hist)
      [] OTHER -> IF is_success(o.status)
                  THEN OnSuccessStatus(n, o, hist)
                  ELSE OnErrorStatus(n, max_attempts, o, hist)

\* code after the loop (618-636)
Exhausted(max_attempts, hist) ==
    ErrResult(RetryExhaustedErr(max_attempts, hist))

(***************************************************************************)
(* Requests (types.rs BlockProductionRequest, client.rs build_rpc_request) *)
(***************************************************************************)
Commitments == {"-", "finalized"}

\* BlockProductionRequest { range: Option<SlotRange>, commitment: Option<String> }
Params(has_range, first, last, commitment) ==
    [has_range |-> has_range, first_slot |-> first, last_slot |-> last,
     commitment |-> commitment]

DefaultParams == Params(FALSE, 0, 0, "-")

AllParams ==
    {Params(FALSE, 0, 0, c) : c \in Commitments}
    \cup {Params(TRUE, f, l, c) : f \in Slots, l \in Slots, c \in Commitments}

NoRequest == [method |-> "-", id |-> 0, has_params |-> FALSE, params |-> <<>>]

build_rpc_request(params) ==
    LET rpc_params ==
            [has_range |-> params.has_range,
             firstSlot |-> IF params.has_range THEN params.first_slot ELSE 0,
             lastSlot |-> IF params.has_range THEN params.last_slot ELSE 0,
             commitment |-> params.commitment]
        is_empty == ~params.has_range /\ params.commitment = "-"
    IN [method |-> "getBlockProduction", id |-> 1, has_params |-> TRUE,
        params |-> IF is_empty THEN <<>> ELSE <<rpc_params>>]

HealthRequest == [method |-> "getHealth", id |-> 1, has_params |-> FALSE, params |-> <<>>]

(***************************************************************************)
(* Public operations: what they do with the outcome of make_rpc_request    *)
(***************************************************************************)
\* process_block_production_response (639-683), by the shape of the body
process_block_production_response(body) ==
    CASE body.result \in {"absent", "malformed"} -> ErrResult(JsonErr)
      [] body.result = "empty" -> ErrResult(NoDataErr(body.range))
      [] OTHER -> OkValue("data")

\* fetch_block_production_with_params / _debug / _range after the `?`
FinishFetch(res) ==
    IF res.tag = "Ok" THEN process_block_production_response(res.body) ELSE res

\* test_connection (128-162)
FinishTestConnection(res) ==
    CASE res.tag = "Ok" ->
            OkValue(IF res.body.result # "absent" THEN "true" ELSE "false")
      [] res.tag = "Err" ->
            ErrResult(ConnectionFailedErr(res.err.kind, "Some(false)"))
      [] OTHER -> res

\* fetch_block_production_debug (184-207): the metadata fields are literals
FinishDebug(res) ==
    LET r == FinishFetch(res)
    IN IF r.tag = "Ok"
       THEN [r EXCEPT !.meta = [present |-> TRUE, retry_attempts |-> 0,
                                rate_limited |-> FALSE]]
       ELSE r

Finish(c, res) ==
    CASE c.op = "test_connection" -> FinishTestConnection(res)
      [] c.op = "fetch_block_production_debug" -> FinishDebug(res)
      [] OTHER -> FinishFetch(res)

\* range check that lets first = last through
InvalidRange_Strict(first, last) == first > last

\* `if first_slot >= last_slot` of fetch_block_production_range (233)
InvalidRange(first, last) == first >= last

(***************************************************************************)
(* State machine                                                           *)
(***************************************************************************)
NoCall == [op |-> "-", params |-> DefaultParams]

NoProbe ==
    [err |-> NoErr, is_retryable |-> FALSE, is_config_error |-> FALSE,
     is_transient |-> FALSE, retry_delay |-> None, category |-> "-"]

\* no response has been processed
NoProduction == [tag |-> "-"]

\* no builder is in use
NoBuilder == [config |-> <<>>, calls |-> <<>>]

Init ==
    /\ retry_attempts \in 0..MaxAttempts
    /\ rate_limiter \in BOOLEAN
    /\ pc = "idle"
    /\ call = NoCall
    /\ request = NoRequest
    /\ attempt = 0
    /\ error_history = <<>>
    /\ sleep_ms = 0
    /\ tokens = 0
    /\ wire = <<>>
    /\ last_outcome = NoOutcome
    /\ rpc_result = NoResult
    /\ result = NoResult
    /\ probe = NoProbe
    /\ by_identity = <<>>
    /\ production = NoProduction
    /\ builder = NoBuilder

Config == <<retry_attempts, rate_limiter>>

CanCall == pc = "idle"

\* a public operation was called: fresh locals
Enter(c) ==
    /\ call' = c
    /\ attempt' = 0
    /\ error_history' = <<>>
    /\ sleep_ms' = 0
    /\ tokens' = 0
    /\ wire' = <<>>
    /\ last_outcome' = NoOutcome
    /\ rpc_result' = NoResult
    /\ UNCHANGED <<Config, probe, by_identity, production, builder>>

\* the operation reaches make_rpc_request(req)
StartRpc(c, req) ==
    /\ Enter(c)
    /\ request' = req
    /\ result' = NoResult
    /\ pc' = "acquire"

\* make_rpc_request returns res and the operation finishes on it
Return(res) ==
    /\ pc' = "done"
    /\ rpc_result' = res
    /\ result' = Finish(call, res)

\* the head of `for attempt in 1..=max_attempts` after iteration n
\* (n = 0: loop entry)
NextIteration(n, hist) ==
    IF n < retry_attempts
    THEN /\ pc' = "send"
         /\ attempt' = n + 1
         /\ UNCHANGED <<rpc_result, result>>
    ELSE /\ Return(Exhausted(retry_attempts, hist))
         /\ attempt' = n

FetchBlockProduction ==
    /\ CanCall
    /\ StartRpc([op |-> "fetch_block_production", params |-> DefaultParams],
                build_rpc_request(DefaultParams))

FetchBlockProductionWithParams ==
    /\ CanCall
    /\ \E params \in AllParams :
          StartRpc([op |-> "fetch_block_production_with_params", params |-> params],
                   build_rpc_request(params))

FetchBlockProductionDebug ==
    /\ CanCall
    /\ \E params \in AllParams :
          StartRpc([op |-> "fetch_block_production_debug", params |-> params],
                   build_rpc_request(params))

FetchBlockProductionRange ==
    /\ CanCall
    /\ \E first \in Slots, last \in Slots :
          LET c == [op |-> "fetch_block_production_range",
                    params |-> Params(TRUE, first, last, "-")]
          IN IF InvalidRange(first, last)
             THEN /\ Enter(c)
                  /\ request' = NoRequest
                  /\ result' = ErrResult(InvalidSlotRangeErr(first, last))
                  /\ pc' = "done"
             ELSE StartRpc(c, build_rpc_request(Params(TRUE, first, last, "-")))

TestConnection ==
    /\ CanCall
    /\ StartRpc([op |-> "test_connection", params |-> DefaultParams], HealthRequest)

\* `rate_limiter.until_ready().await` when a limiter is configured, then
\* the loop is entered (372-393)
Acquire ==
    /\ pc = "acquire"
    /\ tokens' = IF rate_limiter THEN tokens + 1 ELSE tokens
    /\ NextIteration(0, error_history)
    /\ UNCHANGED <<call, request, error_history, sleep_ms, wire, last_outcome>>
    /\ UNCHANGED <<Config, probe, by_identity, production, builder>>

\* one iteration: the send and everything up to the next suspension point
Send ==
    /\ pc = "send"
    /\ \E o \in Outcomes :
          LET st == LoopBody(attempt, retry_attempts, o, error_history)
          IN /\ wire' = Append(wire, request)
             /\ last_outcome' = o
             /\ error_history' = st.hist
             /\ CASE st.next = "return" ->
                        /\ Return(st.res)
                        /\ UNCHANGED <<attempt, sleep_ms>>
                  [] st.next = "sleep" ->
                        /\ pc' = "sleep"
                        /\ sleep_ms' = st.sleep
                        /\ UNCHANGED <<attempt, rpc_result, result>>
                  [] OTHER ->
                        /\ NextIteration(attempt, st.hist)
                        /\ UNCHANGED sleep_ms
    /\ UNCHANGED <<call, request, tokens>>
    /\ UNCHANGED <<Config, probe, by_identity, production, builder>>

\* the inter-retry sleep is over: `continue`
Sleep ==
    /\ pc = "sleep"
    /\ sleep_ms' = 0
    /\ NextIteration(attempt, error_history)
    /\ UNCHANGED <<call, request, error_history, tokens, wire, last_outcome>>
    /\ UNCHANGED <<Config, probe, by_identity, production, builder>>

\* the caller takes the result; the locals of the call are dropped
ReturnToCaller ==
    /\ pc = "done"
    /\ pc' = "idle"
    /\ Enter(NoCall)
    /\ request' = NoRequest
    /\ result' = NoResult

Next ==
    \/ FetchBlockProduction
    \/ FetchBlockProductionWithParams
    \/ FetchBlockProductionDebug
    \/ FetchBlockProductionRange
    \/ TestConnection
    \/ Acquire
    \/ Send
    \/ Sleep
    \/ ReturnToCaller

Spec == Init /\ [][Next]_vars

(***************************************************************************)
(* Vocabulary of the properties                                            *)
(***************************************************************************)
\* the call in flight went through make_rpc_request and it has returned
RpcReturned == pc = "done" /\ rpc_result.tag # "none"

IsResponse(o) == o.type = "response"

\* the failure classes the transport retries
IsTimeoutOutcome(o) == o.type = "elapsed" \/ (o.type = "reqwest_err" /\ o.is_timeout)

IsConnectOutcome(o) == o.type = "reqwest_err" /\ ~o.is_timeout /\ o.is_connect

Is5xxOutcome(o) == IsResponse(o) /\ o.status \in 500..599

Is429Outcome(o) == IsResponse(o) /\ o.status = 429

RetryableFailure(o) ==
    IsTimeoutOutcome(o) \/ IsConnectOutcome(o) \/ Is5xxOutcome(o) \/ Is429Outcome(o)

\* C1: with retry_attempts = N >= 1 a call of make_rpc_request makes at most
\* N HTTP sends, ends in the parsed body or a classified error, and starts
\* attempt n+1 only after attempt n ended in a retryable failure.
C1_BoundedRetry ==
    retry_attempts >= 1 =>
        /\ Len(wire) <= retry_attempts
        /\ RpcReturned => rpc_result.tag \in {"Ok", "Err"}
        /\ (pc \in {"send", "sleep"} /\ Len(wire) >= 1) => RetryableFailure(last_outcome)

\* C2: when all N >= 1 attempts end in retryable failures the call returns
\* RetryExhausted with one history entry per attempt, in attempt order.
C2_ExhaustedIsRetryExhausted ==
    (RpcReturned /\ retry_attempts >= 1 /\ Len(wire) = retry_attempts
        /\ RetryableFailure(last_outcome)) =>
        /\ rpc_result.tag = "Err"
        /\ rpc_result.err.kind = "RetryExhausted"
        /\ Len(rpc_result.err.error_history) = retry_attempts
        /\ \A i \in 1..Len(rpc_result.err.error_history) :
              rpc_result.err.error_history[i].attempt = i

\* C3: with a rate limiter configured the tokens acquired by one call of
\* make_rpc_request equal its HTTP sends (one acquisition per attempt).
C3_TokenPerAttempt ==
    (RpcReturned /\ rate_limiter /\ retry_attempts >= 1) => tokens = Len(wire)

(***************************************************************************)
(* Terminal failures                                                       *)
(***************************************************************************)
IsAuthOutcome(o) == IsResponse(o) /\ o.status \in {401, 403}

IsMalformedOutcome(o) == IsResponse(o) /\ o.status \in 200..299 /\ ~o.body.json

IsRpcErrorOutcome(o) ==
    IsResponse(o) /\ o.status \in 200..299 /\ o.body.json /\ o.body.has_error

TerminalOutcome(o) == IsAuthOutcome(o) \/ IsMalformedOutcome(o) \/ IsRpcErrorOutcome(o)

\* the error kind the transport owes a terminal outcome
TerminalKind(o) ==
    CASE IsAuthOutcome(o) -> "Auth"
      [] IsMalformedOutcome(o) -> "ResponseParsing"
      [] OTHER -> "Rpc"

\* C4: a 401/403, a 2xx body that is not JSON, or a 2xx JSON body with an
\* error object on attempt k ends the call right there with Auth,
\* ResponseParsing or Rpc: the step that receives it returns, k requests
\* were sent and none follows, whatever attempts remain and whatever the
\* Rpc code.
C4_TerminalNeverRetried ==
    [][(pc = "send" /\ TerminalOutcome(last_outcome')) =>
          /\ pc' = "done"
          /\ rpc_result'.tag = "Err"
          /\ rpc_result'.err.kind = TerminalKind(last_outcome')
          /\ (IsRpcErrorOutcome(last_outcome') /\ last_outcome'.body.has_code) =>
                rpc_result'.err.code = last_outcome'.body.code
          /\ Len(wire') = attempt
          /\ attempt' = attempt]_vars

\* C4 witness: an Rpc error with the retryable-looking code -32603 ended the
\* call on a non-final attempt.
C4_Witness ==
    /\ RpcReturned
    /\ IsRpcErrorOutcome(last_outcome)
    /\ rpc_result.err.kind = "Rpc"
    /\ rpc_result.err.code = -32603
    /\ attempt < retry_attempts
    /\ Len(wire) = attempt

(***************************************************************************)
(* 429                                                                     *)
(***************************************************************************)
\* Retry-After as whole seconds, header by header
ExpectedRetryAfter(header) ==
    CASE header = Header(<<"0">>) -> 0
      [] header = Header(<<"1">>) -> 1
      [] header = Header(<<"1", "0">>) -> 10
      [] header = Header(<<"+", "2">>) -> 2
      [] OTHER -> None

\* C5: a 429 on the final attempt returns RateLimit with the Retry-After
\* header as whole seconds (None when absent or not an integer) and no
\* sleep; on a non-final attempt it sleeps Retry-After seconds, or
\* 100ms x attempt when there is none, and then starts the next attempt.
C5_RateLimited ==
    [][/\ (pc = "send" /\ Is429Outcome(last_outcome')) =>
            IF attempt = retry_attempts
            THEN /\ pc' = "done"
                 /\ rpc_result' =
                        ErrResult(RateLimitErr(ExpectedRetryAfter(last_outcome'.retry_after)))
                 /\ sleep_ms' = 0
            ELSE /\ pc' = "sleep"
                 /\ attempt' = attempt
                 /\ sleep_ms' =
                        IF ExpectedRetryAfter(last_outcome'.retry_after) # None
                        THEN 1000 * ExpectedRetryAfter(last_outcome'.retry_after)
                        ELSE 100 * attempt
       /\ pc = "sleep" =>
            /\ Is429Outcome(last_outcome)
            /\ pc' = "send"
            /\ attempt' = attempt + 1
            /\ wire' = wire]_vars

\* C5 witness: retry_attempts = 1, "Retry-After: 1": RateLimit with 1s after
\* exactly one send.
C5_Witness ==
    /\ RpcReturned
    /\ retry_attempts = 1
    /\ Is429Outcome(last_outcome)
    /\ last_outcome.retry_after = Header(<<"1">>)
    /\ rpc_result.err.kind = "RateLimit"
    /\ rpc_result.err.retry_after = 1
    /\ Len(wire) = 1

(***************************************************************************)
(* Timeout, connect failure, 5xx                                           *)
(***************************************************************************)
\* C6: a timeout, a connect failure or a 5xx on a non-final attempt k goes
\* straight to attempt k+1 (no sleep); on the final attempt it returns
\* Timeout, ConnectionFailed or Http with the status, by the class of that
\* attempt's failure.
C6_TransientFailures ==
    [][(pc = "send" /\ (IsTimeoutOutcome(last_outcome')
                        \/ IsConnectOutcome(last_outcome')
                        \/ Is5xxOutcome(last_outcome'))) =>
          IF attempt < retry_attempts
          THEN /\ pc' = "send"
               /\ attempt' = attempt + 1
               /\ sleep_ms' = 0
               /\ rpc_result' = NoResult
          ELSE /\ pc' = "done"
               /\ rpc_result'.tag = "Err"
               /\ IsTimeoutOutcome(last_outcome') => rpc_result'.err.kind = "Timeout"
               /\ IsConnectOutcome(last_outcome') =>
                     rpc_result'.err.kind = "ConnectionFailed"
               /\ Is5xxOutcome(last_outcome') =>
                     /\ rpc_result'.err.kind = "Http"
                     /\ rpc_result'.err.status = last_outcome'.status]_vars

\* C6 witness: a connect failure on the final attempt after a failure of
\* another class on an earlier one.
C6_Witness ==
    /\ RpcReturned
    /\ Len(wire) = retry_attempts
    /\ retry_attempts >= 2
    /\ IsConnectOutcome(last_outcome)
    /\ rpc_result.err.kind = "ConnectionFailed"
    /\ error_history[1].what = "HTTP status error"

(***************************************************************************)
(* Unmapped statuses                                                       *)
(***************************************************************************)
UnmappedStatus(status) ==
    /\ status \notin 200..299
    /\ status \notin {429, 401, 403}
    /\ status \notin 500..599

\* C7: every status that is not 2xx, 429, 401, 403 or 5xx returns an Http
\* error on that attempt; none makes the call panic.
C7_UnmappedStatusIsHttp ==
    (RpcReturned /\ IsResponse(last_outcome) /\ UnmappedStatus(last_outcome.status)) =>
        /\ rpc_result.tag = "Err"
        /\ rpc_result.err.kind = "Http"

(***************************************************************************)
(* Slot ranges                                                             *)
(***************************************************************************)
\* the range a request on the wire carries, <<>> when it carries none
WireRange(req) ==
    IF req.params # <<>> /\ req.params[1].has_range
    THEN <<req.params[1].firstSlot, req.params[1].lastSlot>>
    ELSE <<>>

\* C8: fetch_block_production_range(first, last) with first >= last returns
\* InvalidSlotRange carrying the pair with no limiter acquisition and no
\* request; with first < last every request carries exactly that range.
C8_RangeValidated ==
    call.op = "fetch_block_production_range" =>
        IF call.params.first_slot >= call.params.last_slot
        THEN /\ pc = "done"
             /\ result.tag = "Err"
             /\ result.err.kind = "InvalidSlotRange"
             /\ result.err.range = <<call.params.first_slot, call.params.last_slot>>
             /\ tokens = 0
             /\ wire = <<>>
        ELSE /\ \A i \in 1..Len(wire) :
                   WireRange(wire[i]) = <<call.params.first_slot, call.params.last_slot>>
             /\ (pc = "done" /\ retry_attempts >= 1) => Len(wire) >= 1

\* C8 witness: first = last was rejected.
C8_Witness ==
    /\ call.op = "fetch_block_production_range"
    /\ call.params.first_slot = call.params.last_slot
    /\ pc = "done"
    /\ result.err.kind = "InvalidSlotRange"
    /\ wire = <<>>

\* C9: no getBlockProduction request with lastSlot < firstSlot is ever
\* sent, on any public fetch path.
C9_NoInvertedRangeSent ==
    \A i \in 1..Len(wire) :
        WireRange(wire[i]) # <<>> => WireRange(wire[i])[2] >= WireRange(wire[i])[1]

(***************************************************************************)
(* Error taxonomy (error.rs, impl ErrorExt for BlockProductionError)       *)
(***************************************************************************)
is_server_error_ClientErrorsToo(status) == status >= 400 /\ status <= 599

\* StatusCode::is_server_error
is_server_error(status) == status >= 500 /\ status <= 599

\* is_retryable, with NoData on the retryable side
is_retryable_NoDataRetried(e) ==
    CASE e.kind = "Http" ->
            e.is_timeout \/ e.is_connect
            \/ (IF e.status = 0 THEN TRUE ELSE is_server_error(e.status))
      [] e.kind \in {"Timeout", "RateLimit", "ConnectionFailed", "NoData"} -> TRUE
      [] e.kind = "Rpc" -> e.code = -32603 \/ e.code = -32000
      [] e.kind = "General" -> e.category \in {"Network", "RateLimit"}
      [] OTHER -> FALSE

\* source.status() is None when e.status = 0
is_retryable(e) ==
    CASE e.kind = "Http" ->
            e.is_timeout \/ e.is_connect
            \/ (IF e.status = 0 THEN TRUE ELSE is_server_error(e.status))
      [] e.kind \in {"Timeout", "RateLimit", "ConnectionFailed"} -> TRUE
      [] e.kind = "Rpc" -> e.code = -32603 \/ e.code = -32000
      [] e.kind \in {"Json", "Config", "InvalidSlotRange", "InvalidValidator",
                     "Auth", "NoData", "RetryExhausted", "ResponseParsing",
                     "Internal"} -> FALSE
      [] e.kind = "General" -> e.category \in {"Network", "RateLimit"}

is_config_error(e) == e.kind \in {"Config", "InvalidSlotRange", "InvalidValidator"}

is_transient(e) ==
    CASE e.kind = "Http" -> e.is_timeout \/ e.is_connect
      [] e.kind \in {"Timeout", "RateLimit", "ConnectionFailed"} -> TRUE
      [] OTHER -> FALSE

retry_delay_NoDefaults(e) ==
    CASE e.kind = "RateLimit" -> e.retry_after
      [] e.kind = "Timeout" -> 5
      [] e.kind = "ConnectionFailed" -> 2
      [] OTHER -> None

\* Option<Duration> in whole seconds
retry_delay(e) ==
    CASE e.kind = "RateLimit" -> IF e.retry_after # None THEN e.retry_after ELSE 60
      [] e.kind = "Timeout" -> 5
      [] e.kind = "ConnectionFailed" -> 2
      [] e.kind = "Http" /\ e.is_timeout -> 3
      [] OTHER -> IF is_retryable(e) THEN 1 ELSE None

category(e) ==
    CASE e.kind \in {"Http", "ConnectionFailed", "Timeout"} -> "Network"
      [] e.kind = "Config" -> "Configuration"
      [] e.kind \in {"InvalidSlotRange", "InvalidValidator"} -> "Validation"
      [] e.kind \in {"Rpc", "ResponseParsing"} -> "Rpc"
      [] e.kind = "RateLimit" -> "RateLimit"
      [] e.kind = "Auth" -> "Authentication"
      [] e.kind \in {"Json", "NoData", "RetryExhausted", "Internal"} -> "Network"
      [] e.kind = "General" -> IF e.category = "None" THEN "Network" ELSE e.category

(***************************************************************************)
(* Error values of every variant                                           *)
(***************************************************************************)
Categories ==
    {"Network", "Configuration", "Validation", "Rpc", "RateLimit", "Authentication"}

\* Option<(u64, u64)>: None or any pair of slots
OptRanges == {<<>>} \cup (Slots \X Slots)

ErrorStatuses == {400, 401, 403, 404, 429, 500, 502, 503, 599}

ProbedRpcCodes ==
    {-32700, -32603, -32602, -32601, -32600, -32005, -32002, -32001, -32000, -1, 0, 1}

ErrorKinds ==
    {"Http", "Json", "Rpc", "Config", "RateLimit", "Timeout", "InvalidSlotRange",
     "NoData", "RetryExhausted", "InvalidValidator", "ConnectionFailed",
     "ResponseParsing", "Internal", "Auth", "General"}

ErrorValues ==
    {HttpErr(st, FALSE, FALSE) : st \in ErrorStatuses}
    \cup {HttpErr(0, t, c) : t \in BOOLEAN, c \in BOOLEAN}
    \cup {JsonErr, ResponseParsingErr}
    \cup {RpcErr(c) : c \in ProbedRpcCodes}
    \cup {[ErrBase EXCEPT !.kind = k] : k \in {"Config", "InvalidValidator", "Internal"}}
    \cup {RateLimitErr(r) : r \in {None, 0, 1, 45, 60}}
    \cup {[TimeoutErr EXCEPT !.timeout_type = tt] : tt \in {"Connection", "Read", "Request"}}
    \cup {[ErrBase EXCEPT !.kind = "InvalidSlotRange", !.range = r] : r \in OptRanges}
    \cup {NoDataErr(r) : r \in OptRanges}
    \cup {[RetryExhaustedErr(n, <<>>) EXCEPT !.last_error = k] :
              n \in 0..MaxAttempts, k \in {"Timeout", "RateLimit", "Http", "ConnectionFailed"}}
    \cup {ConnectionFailedErr(k, r) :
              k \in ErrorKinds \cup {"reqwest", "io"},
              r \in {"None", "Some(false)", "Some(true)"}}
    \cup {AuthErr(a) : a \in {"MissingApiKey", "InvalidApiKey", "QuotaExceeded", "IpBlocked"}}
    \cup {[ErrBase EXCEPT !.kind = "General", !.category = c] : c \in Categories \cup {"None"}}

(***************************************************************************)
(* SpecErr: a caller holds an error value and asks the ErrorExt queries    *)
(***************************************************************************)
Answers(e) ==
    [err |-> e, is_retryable |-> is_retryable(e),
     is_config_error |-> is_config_error(e), is_transient |-> is_transient(e),
     retry_delay |-> retry_delay(e), category |-> category(e)]

InitErr ==
    /\ retry_attempts = MaxAttempts
    /\ rate_limiter = FALSE
    /\ pc = "idle"
    /\ call = NoCall
    /\ request = NoRequest
    /\ attempt = 0
    /\ error_history = <<>>
    /\ sleep_ms = 0
    /\ tokens = 0
    /\ wire = <<>>
    /\ last_outcome = NoOutcome
    /\ rpc_result = NoResult
    /\ result = NoResult
    /\ probe = NoProbe
    /\ by_identity = <<>>
    /\ production = NoProduction
    /\ builder = NoBuilder

Inspect ==
    /\ \E e \in ErrorValues : probe' = Answers(e)
    /\ UNCHANGED <<retry_attempts, rate_limiter, pc, call, request, attempt,
                   error_history, sleep_ms, tokens, wire, last_outcome,
                   rpc_result, result, by_identity, production, builder>>

SpecErr == InitErr /\ [][Inspect]_vars

\* C10: no error value is both retryable and a configuration error; Config
\* and NoData errors are never retryable.
C10_RetryableExcludesConfig ==
    /\ ~(probe.is_retryable /\ probe.is_config_error)
    /\ probe.err.kind \in {"Config", "NoData"} => ~probe.is_retryable

\* C10 witness: a NoData error was asked and answered not retryable, not a
\* configuration error.
C10_Witness ==
    /\ probe.err.kind = "NoData"
    /\ probe.err.range # <<>>
    /\ ~probe.is_retryable
    /\ ~probe.is_config_error

(***************************************************************************)
(* The retry metadata of an error value                                    *)
(***************************************************************************)
\* the kinds the contract lists as retryable: connection and transport
\* failures, timeouts, rate limiting, 5xx statuses, two RPC codes
ListedRetryable(e) ==
    \/ e.kind \in {"ConnectionFailed", "Timeout", "RateLimit"}
    \/ e.kind = "Http" /\ (e.is_timeout \/ e.is_connect)
    \/ e.kind = "Http" /\ e.status # 0 /\ e.status >= 500 /\ e.status <= 599
    \/ e.kind = "Rpc" /\ e.code \in {-32603, -32000}

\* C11 as stated: is_retryable() is true exactly for connection/transport
\* failures, Timeout, RateLimit, Http errors with a 5xx status and Rpc errors
\* with code -32603 or -32000, and false for every other error value, among
\* them Http errors with no status and no timeout/connect flag, and General.
C11_RetryableOnlyListed ==
    probe.is_retryable <=> ListedRetryable(probe.err)

\* C11 amended: is_retryable() is true exactly for the listed kinds and, in
\* addition, for every Http error that carries no status and for a General
\* error whose category is Network or RateLimit; it is false for every other
\* error value.
C11_RetryableListedOrDefaulted ==
    probe.is_retryable <=>
        \/ ListedRetryable(probe.err)
        \/ probe.err.kind = "Http" /\ probe.err.status = 0
        \/ probe.err.kind = "General" /\ probe.err.category \in {"Network", "RateLimit"}

\* C11 witness: an Http error with no status that is neither a timeout nor a
\* connect error was asked and answered retryable.
C11_Witness ==
    /\ probe.err.kind = "Http"
    /\ probe.err.status = 0
    /\ ~probe.err.is_timeout
    /\ ~probe.err.is_connect
    /\ probe.is_retryable

\* C12 as stated: retry_delay() is the explicit retry_after of a RateLimit
\* error, 5 s for Timeout, 2 s for a connection failure and None for every
\* other error, among them a RateLimit error without retry_after and
\* retryable Rpc or 5xx Http errors.
C12_DelayOnlyListed ==
    probe.retry_delay =
        CASE probe.err.kind = "RateLimit" -> probe.err.retry_after
          [] probe.err.kind = "Timeout" -> 5
          [] probe.err.kind = "ConnectionFailed" -> 2
          [] OTHER -> None

\* C12 amended: retry_delay() is the explicit retry_after of a RateLimit
\* error and 60 s when it has none, 5 s for Timeout, 2 s for a connection
\* failure, 3 s for an Http timeout, 1 s for every other retryable error and
\* None for every error that is not retryable.
C12_DelayWithDefaults ==
    probe.retry_delay =
        CASE probe.err.kind = "RateLimit" /\ probe.err.retry_after # None ->
                 probe.err.retry_after
          [] probe.err.kind = "RateLimit" /\ probe.err.retry_after = None -> 60
          [] probe.err.kind = "Timeout" -> 5
          [] probe.err.kind = "ConnectionFailed" -> 2
          [] probe.err.kind = "Http" /\ probe.err.is_timeout -> 3
          [] OTHER -> IF probe.is_retryable THEN 1 ELSE None

\* C12 witness: a RateLimit error without retry_after was asked and answered
\* 60 s.
C12_Witness ==
    /\ probe.err.kind = "RateLimit"
    /\ probe.err.retry_after = None
    /\ probe.retry_delay = 60

(***************************************************************************)
(* Analytics engine (client.rs 639-1123, types.rs 40-284)                  *)
(*                                                                         *)
(* An f64 is kept as the exact fraction <<numerator, denominator>> in      *)
(* lowest terms with a positive denominator, so that every comparison of   *)
(* the code against a literal (0.0, 0.0001, 5.0, 99.9, 100.0 ...) is       *)
(* decided exactly.                                                        *)
(***************************************************************************)
MaxValidators == 4

RECURSIVE GCD(_, _)
GCD(a, b) == IF b = 0 THEN a ELSE GCD(b, a % b)

Abs(n) == IF n < 0 THEN -n ELSE n

\* the f64 n / d for a divisor d > 0
Ratio(n, d) == LET g == GCD(Abs(n), d) IN <<n \div g, d \div g>>

\* an f64 literal with no fractional part, or `n as f64`
F64(n) == <<n, 1>>

Lt(a, b) == a[1] * b[2] < b[1] * a[2]
Ge(a, b) == ~Lt(a, b)
Gt(a, b) == Lt(b, a)

\* a + b
Plus(a, b) ==
    LET l == (a[2] \div GCD(a[2], b[2])) * b[2]
    IN  Ratio(a[1] * (l \div a[2]) + b[1] * (l \div b[2]), l)

\* a - b
Minus(a, b) == Plus(a, <<-b[1], b[2]>>)

\* a * k and a / k for whole k, k > 0 in the quotient
Times(a, k) == Ratio(a[1] * k, a[2])
Over(a, k) == Ratio(a[1], a[2] * k)

\* f64::min
min(a, b) == IF Lt(b, a) THEN b ELSE a

\* (part as f64 / whole as f64) * 100.0
Percent(part, whole) == Ratio(100 * part, whole)

RECURSIVE sum(_)
\* Iterator::sum over u64 or usize (the halves are added up apart, which
\* gives the same number)
sum(s) ==
    IF s = <<>> THEN 0
    ELSE IF Len(s) = 1 THEN s[1]
    ELSE LET half == Len(s) \div 2
         IN  sum(SubSeq(s, 1, half)) + sum(SubSeq(s, half + 1, Len(s)))

RECURSIVE sum_f64(_)
\* Iterator::sum::<f64> (the halves are added up apart, which gives the
\* same exact value)
sum_f64(s) ==
    IF s = <<>> THEN F64(0)
    ELSE IF Len(s) = 1 THEN s[1]
    ELSE LET half == Len(s) \div 2
         IN  Plus(sum_f64(SubSeq(s, 1, half)), sum_f64(SubSeq(s, half + 1, Len(s))))

saturating_sub_Wrapping(a, b) == a - b

\* u64::saturating_sub
saturating_sub(a, b) == IF a >= b THEN a - b ELSE 0

\* ValidatorSkipRate::new
ValidatorSkipRate_new(pubkey, leader_slots, blocks_produced) ==
    LET missed_slots == saturating_sub(leader_slots, blocks_produced)
    IN  [pubkey |-> pubkey,
         leader_slots |-> leader_slots,
         blocks_produced |-> blocks_produced,
         missed_slots |-> missed_slots,
         skip_rate_percent |->
             IF leader_slots > 0 THEN Percent(missed_slots, leader_slots)
             ELSE F64(0)]

is_perfect_AnyZeroRate(v) == v.skip_rate_percent = F64(0)

is_perfect(v) == v.skip_rate_percent = F64(0) /\ v.leader_slots > 0

is_concerning_Inclusive(v) == Ge(v.skip_rate_percent, F64(5))

is_concerning(v) == Gt(v.skip_rate_percent, F64(5))

is_significant(v) == v.leader_slots >= 50

is_high_stake(v) == v.leader_slots > 1000

is_low_activity(v) == v.leader_slots < 10

is_offline(v) == Ge(v.skip_rate_percent, F64(100))

from_skip_rate_RateFirst(skip_rate, leader_slots) ==
    IF Ge(skip_rate, F64(100)) THEN "Offline"
    ELSE IF leader_slots < 10 THEN "Insufficient"
    ELSE IF Ge(skip_rate, F64(25)) THEN "Critical"
    ELSE IF Ge(skip_rate, F64(10)) THEN "Poor"
    ELSE IF Ge(skip_rate, F64(5)) THEN "Concerning"
    ELSE IF Ge(skip_rate, F64(3)) THEN "Average"
    ELSE IF Ge(skip_rate, F64(1)) THEN "Good"
    ELSE IF Gt(skip_rate, F64(0)) THEN "Excellent"
    ELSE "Perfect"

\* ValidatorPerformanceCategory::from_skip_rate
from_skip_rate(skip_rate, leader_slots) ==
    IF leader_slots < 10 THEN "Insufficient"
    ELSE IF Ge(skip_rate, F64(100)) THEN "Offline"
    ELSE IF Ge(skip_rate, F64(25)) THEN "Critical"
    ELSE IF Ge(skip_rate, F64(10)) THEN "Poor"
    ELSE IF Ge(skip_rate, F64(5)) THEN "Concerning"
    ELSE IF Ge(skip_rate, F64(3)) THEN "Average"
    ELSE IF Ge(skip_rate, F64(1)) THEN "Good"
    ELSE IF Gt(skip_rate, F64(0)) THEN "Excellent"
    ELSE "Perfect"

\* the skip rates of a slice of validators
skip_rates_of(validators) ==
    [i \in 1..Len(validators) |-> validators[i].skip_rate_percent]

RECURSIVE sort_rates(_)
\* Vec<f64>::sort_by(partial_cmp): ascending
sort_rates(rates) ==
    IF rates = <<>> THEN <<>>
    ELSE LET n == Len(rates)
             front == sort_rates(SubSeq(rates, 1, n - 1))
             k == Cardinality({i \in 1..Len(front) : ~Lt(rates[n], front[i])})
         IN  SubSeq(front, 1, k) \o <<rates[n]>> \o SubSeq(front, k + 1, Len(front))

RECURSIVE sort_by_skip_rate(_)
\* validators.sort_by(skip_rate_percent): ascending and stable, validators
\* of equal rate keep the order the map iterated them in
sort_by_skip_rate(validators) ==
    IF validators = <<>> THEN <<>>
    ELSE LET n == Len(validators)
             front == sort_by_skip_rate(SubSeq(validators, 1, n - 1))
             k == Cardinality({i \in 1..Len(front) :
                      ~Lt(validators[n].skip_rate_percent, front[i].skip_rate_percent)})
         IN  SubSeq(front, 1, k) \o <<validators[n]>> \o SubSeq(front, k + 1, Len(front))

calculate_percentile_Ceiling(sorted_values, percentile) ==
    IF sorted_values = <<>> THEN F64(0)
    ELSE LET len == Len(sorted_values)
             index == ((len - 1) * percentile + 99) \div 100
         IN  sorted_values[(IF index < len - 1 THEN index ELSE len - 1) + 1]

\* calculate_percentile; the percentile is given in hundredths (0.90 is 90)
\* and `as usize` truncates
calculate_percentile(sorted_values, percentile) ==
    IF sorted_values = <<>> THEN F64(0)
    ELSE LET len == Len(sorted_values)
             index == ((len - 1) * percentile) \div 100
         IN  sorted_values[(IF index < len - 1 THEN index ELSE len - 1) + 1]

\* calculate_statistics (weighted_skip_rate_percent, a sum of natural
\* logarithms, is left out)
calculate_statistics(validators) ==
    LET leader(vs) == sum([i \in 1..Len(vs) |-> vs[i].leader_slots])
        produced(vs) == sum([i \in 1..Len(vs) |-> vs[i].blocks_produced])
        missed(vs) == sum([i \in 1..Len(vs) |-> vs[i].missed_slots])
        rate(part, whole) == IF whole > 0 THEN Percent(part, whole) ELSE F64(0)
        significant_validators == SelectSeq(validators, is_significant)
        high_stake_validators == SelectSeq(validators, is_high_stake)
        skip_rates == skip_rates_of(validators)
        sorted_rates == sort_rates(skip_rates)
        significant_skip_rates == sort_rates(skip_rates_of(significant_validators))
        len == Len(sorted_rates)
        mid == len \div 2
    IN  [total_validators |-> Len(validators),
         total_leader_slots |-> leader(validators),
         total_blocks_produced |-> produced(validators),
         total_missed_slots |-> missed(validators),
         overall_skip_rate_percent |-> rate(missed(validators), leader(validators)),
         average_skip_rate_percent |->
             IF skip_rates = <<>> THEN F64(0)
             ELSE Over(sum_f64(skip_rates), Len(skip_rates)),
         median_skip_rate_percent |->
             IF sorted_rates = <<>> THEN F64(0)
             ELSE IF len % 2 = 0
                  THEN Over(Plus(sorted_rates[mid], sorted_rates[mid + 1]), 2)
                  ELSE sorted_rates[mid + 1],
         significant_validators_skip_rate_percent |->
             rate(missed(significant_validators), leader(significant_validators)),
         high_stake_skip_rate_percent |->
             rate(missed(high_stake_validators), leader(high_stake_validators)),
         perfect_validators |-> Len(SelectSeq(validators, is_perfect)),
         concerning_validators |-> Len(SelectSeq(validators, is_concerning)),
         offline_validators |-> Len(SelectSeq(validators, is_offline)),
         low_activity_validators |-> Len(SelectSeq(validators, is_low_activity)),
         high_activity_validators |-> Len(SelectSeq(validators, is_high_stake)),
         significant_validators |-> Len(significant_validators),
         skip_rate_90th_percentile |-> calculate_percentile(sorted_rates, 90),
         skip_rate_95th_percentile |-> calculate_percentile(sorted_rates, 95),
         significant_skip_rate_90th_percentile |->
             calculate_percentile(significant_skip_rates, 90),
         significant_skip_rate_95th_percentile |->
             calculate_percentile(significant_skip_rates, 95),
         network_efficiency_percent |->
             rate(produced(validators), leader(validators)),
         weighted_network_efficiency_percent |->
             rate(produced(significant_validators), leader(significant_validators))]

\* bucket_ranges of calculate_distribution: (min_percent, max_percent, label)
bucket_ranges ==
    << <<F64(0), F64(0), "Perfect (0%)">>,
       <<Ratio(1, 10000), F64(1), "Excellent (0.1-1%)">>,
       <<F64(1), F64(2), "Good (1-2%)">>,
       <<F64(2), F64(5), "Average (2-5%)">>,
       <<F64(5), F64(10), "Concerning (5-10%)">>,
       <<F64(10), F64(25), "Poor (10-25%)">>,
       <<F64(25), F64(50), "Critical (25-50%)">>,
       <<F64(50), Ratio(999, 10), "Failing (50-99%)">>,
       <<F64(100), F64(100), "Dead (100%)">> >>

\* the filter closure of calculate_distribution
in_bucket(v, range) ==
    IF range[3] = "Perfect (0%)" THEN v.skip_rate_percent = F64(0)
    ELSE IF range[3] = "Dead (100%)" THEN v.skip_rate_percent = F64(100)
    ELSE Ge(v.skip_rate_percent, range[1]) /\ Lt(v.skip_rate_percent, range[2])

percentiles_to_calculate == <<10, 20, 30, 40, 50, 60, 70, 80, 90, 95, 99>>

\* calculate_distribution
calculate_distribution(validators) ==
    LET total_validators == Len(validators)
        skip_rates == sort_rates(skip_rates_of(validators))
        buckets ==
            [b \in DOMAIN bucket_ranges |->
                LET members == SelectSeq(validators, LAMBDA v : in_bucket(v, bucket_ranges[b]))
                    count == Len(members)
                IN  [range_label |-> bucket_ranges[b][3],
                     min_percent |-> bucket_ranges[b][1],
                     max_percent |-> bucket_ranges[b][2],
                     validator_count |-> count,
                     percentage_of_total |->
                         IF total_validators > 0 THEN Percent(count, total_validators)
                         ELSE F64(0),
                     total_slots |-> sum([i \in 1..count |-> members[i].leader_slots])]]
        percentiles ==
            [i \in DOMAIN percentiles_to_calculate |->
                [percentile |-> percentiles_to_calculate[i],
                 skip_rate_percent |->
                     calculate_percentile(skip_rates, percentiles_to_calculate[i])]]
    IN  [buckets |-> buckets,
         percentiles |-> percentiles,
         plot_data |->
             [histogram_labels |-> [b \in DOMAIN buckets |-> buckets[b].range_label],
              histogram_values |-> [b \in DOMAIN buckets |-> buckets[b].validator_count],
              percentile_x |-> [i \in DOMAIN percentiles |-> percentiles[i].percentile],
              percentile_y |-> [i \in DOMAIN percentiles |-> percentiles[i].skip_rate_percent]]]

calculate_health_score_Unclamped(statistics) ==
    LET skip_rate_score ==
            Times(Over(Minus(F64(5), min(statistics.overall_skip_rate_percent, F64(5))), 5), 40)
        efficiency_score == Times(Over(statistics.network_efficiency_percent, 100), 30)
        validator_health_score ==
            IF statistics.total_validators > 0
            THEN Times(Ratio(statistics.total_validators - statistics.concerning_validators,
                             statistics.total_validators), 30)
            ELSE F64(0)
    IN  Plus(Plus(skip_rate_score, efficiency_score), validator_health_score)

\* calculate_health_score
calculate_health_score(statistics) ==
    LET skip_rate_score ==
            Times(Over(Minus(F64(5), min(statistics.overall_skip_rate_percent, F64(5))), 5), 40)
        efficiency_score == Times(Over(statistics.network_efficiency_percent, 100), 30)
        validator_health_score ==
            IF statistics.total_validators > 0
            THEN Times(Ratio(statistics.total_validators - statistics.concerning_validators,
                             statistics.total_validators), 30)
            ELSE F64(0)
    IN  min(Plus(Plus(skip_rate_score, efficiency_score), validator_health_score), F64(100))

Alert_SeverityLost(sev, cat) == [severity |-> "Warning", category |-> cat]

\* NetworkAlert without its message and timestamp
Alert(sev, cat) == [severity |-> sev, category |-> cat]

calculate_network_health_FromTwenty(statistics, validators) ==
    LET health_score == calculate_health_score(statistics)
        status ==
            IF Ge(health_score, F64(90)) THEN "Healthy"
            ELSE IF Ge(health_score, F64(75)) THEN "Warning"
            ELSE IF Ge(health_score, F64(50)) THEN "Degraded"
            ELSE "Critical"
        concerning_validators_data == SelectSeq(validators, is_concerning)
        total_concerning_slots ==
            sum([i \in 1..Len(concerning_validators_data) |->
                    concerning_validators_data[i].leader_slots])
        significant_concerning ==
            Len(SelectSeq(concerning_validators_data, is_significant))
        concerning_network_impact ==
            Percent(total_concerning_slots, statistics.total_leader_slots)
        high_impact_bad_validators ==
            SelectSeq(validators,
                LAMBDA v : Gt(v.skip_rate_percent, F64(10)) /\ v.leader_slots > 1000)
        skip_rate_alert ==
            IF Gt(statistics.overall_skip_rate_percent, F64(5))
            THEN <<Alert("Critical", "SkipRate")>> ELSE <<>>
        concerning_alert ==
            IF statistics.concerning_validators >= 20
            THEN IF Gt(concerning_network_impact, F64(2)) \/ significant_concerning > 10
                 THEN <<Alert(IF Gt(concerning_network_impact, F64(5))
                              THEN "Critical" ELSE "Warning", "ValidatorCount")>>
                 ELSE <<>>
            ELSE <<>>
        efficiency_alert ==
            IF Lt(statistics.network_efficiency_percent, F64(95))
            THEN <<Alert("Warning", "NetworkEfficiency")>> ELSE <<>>
        high_impact_alert ==
            IF high_impact_bad_validators # <<>>
            THEN <<Alert("Critical", "ValidatorCount")>> ELSE <<>>
    IN  [health_score |-> health_score,
         status |-> status,
         alerts |-> skip_rate_alert \o concerning_alert \o efficiency_alert
                    \o high_impact_alert]

\* calculate_network_health (the dashboard cards, formatted strings, are
\* left out)
calculate_network_health(statistics, validators) ==
    LET health_score == calculate_health_score(statistics)
        status ==
            IF Ge(health_score, F64(90)) THEN "Healthy"
            ELSE IF Ge(health_score, F64(75)) THEN "Warning"
            ELSE IF Ge(health_score, F64(50)) THEN "Degraded"
            ELSE "Critical"
        concerning_validators_data == SelectSeq(validators, is_concerning)
        total_concerning_slots ==
            sum([i \in 1..Len(concerning_validators_data) |->
                    concerning_validators_data[i].leader_slots])
        significant_concerning ==
            Len(SelectSeq(concerning_validators_data, is_significant))
        concerning_network_impact ==
            Percent(total_concerning_slots, statistics.total_leader_slots)
        high_impact_bad_validators ==
            SelectSeq(validators,
                LAMBDA v : Gt(v.skip_rate_percent, F64(10)) /\ v.leader_slots > 1000)
        skip_rate_alert ==
            IF Gt(statistics.overall_skip_rate_percent, F64(5))
            THEN <<Alert("Critical", "SkipRate")>> ELSE <<>>
        concerning_alert ==
            IF statistics.concerning_validators > 20
            THEN IF Gt(concerning_network_impact, F64(2)) \/ significant_concerning > 10
                 THEN <<Alert(IF Gt(concerning_network_impact, F64(5))
                              THEN "Critical" ELSE "Warning", "ValidatorCount")>>
                 ELSE <<>>
            ELSE <<>>
        efficiency_alert ==
            IF Lt(statistics.network_efficiency_percent, F64(95))
            THEN <<Alert("Warning", "NetworkEfficiency")>> ELSE <<>>
        high_impact_alert ==
            IF high_impact_bad_validators # <<>>
            THEN <<Alert("Critical", "ValidatorCount")>> ELSE <<>>
    IN  [health_score |-> health_score,
         status |-> status,
         alerts |-> skip_rate_alert \o concerning_alert \o efficiency_alert
                    \o high_impact_alert]

\* create_performance_snapshots (the timestamp, Utc::now(), is left out)
create_performance_snapshots(validators, slot_range) ==
    [i \in 1..Len(validators) |->
        [slot_range |-> slot_range,
         validator_pubkey |-> validators[i].pubkey,
         skip_rate_percent |-> validators[i].skip_rate_percent,
         leader_slots |-> validators[i].leader_slots,
         blocks_produced |-> validators[i].blocks_produced,
         performance_category |->
             from_skip_rate(validators[i].skip_rate_percent, validators[i].leader_slots)]]

\* Err(e) of process_block_production_response: nothing else is returned
NoDataResult(e) ==
    [tag |-> "Err", err |-> e, validators |-> <<>>, statistics |-> <<>>,
     distribution |-> <<>>, network_health |-> <<>>,
     performance_snapshots |-> <<>>, slot_range |-> <<>>]

\* Ok(BlockProductionData { .. }) of process_block_production_response
BlockProductionData(entries, slot_range) ==
    LET validators ==
            sort_by_skip_rate(
                [i \in 1..Len(entries) |->
                    ValidatorSkipRate_new(i, entries[i][1], entries[i][2])])
        statistics == calculate_statistics(validators)
    IN  [tag |-> "Ok", err |-> NoErr,
         validators |-> validators,
         statistics |-> statistics,
         distribution |-> calculate_distribution(validators),
         network_health |-> calculate_network_health(statistics, validators),
         performance_snapshots |-> create_performance_snapshots(validators, slot_range),
         slot_range |-> slot_range]

process_value_EmptyAccepted(entries, slot_range) ==
    BlockProductionData(entries, slot_range)

\* process_block_production_response (645-682) on the deserialized value:
\* byIdentity as the map iterates it, entry i under the i-th pubkey
process_value(entries, slot_range) ==
    IF entries = <<>> THEN NoDataResult(NoDataErr(slot_range))
    ELSE BlockProductionData(entries, slot_range)

(***************************************************************************)
(* SpecData: a response has arrived and is processed                       *)
(***************************************************************************)
\* (leader_slots, blocks_produced) of one byIdentity entry
Entries ==
    {<<0, 0>>, <<5, 0>>, <<5, 1000>>, <<100, 100>>, <<100, 98>>, <<100, 95>>,
     <<100, 90>>, <<100, 80>>, <<100, 0>>, <<2000, 1>>}

\* byIdentity maps of up to MaxValidators entries, in every iteration order
IdentityMaps == UNION {[1..n -> Entries] : n \in 0..MaxValidators}

InitData ==
    /\ retry_attempts = MaxAttempts
    /\ rate_limiter = FALSE
    /\ pc = "idle"
    /\ call = NoCall
    /\ request = NoRequest
    /\ attempt = 0
    /\ error_history = <<>>
    /\ sleep_ms = 0
    /\ tokens = 0
    /\ wire = <<>>
    /\ last_outcome = NoOutcome
    /\ rpc_result = NoResult
    /\ result = NoResult
    /\ probe = NoProbe
    /\ by_identity \in IdentityMaps
    /\ production = NoProduction
    /\ builder = NoBuilder

ProcessResponse ==
    /\ production.tag = "-"
    /\ production' = process_value(by_identity, ResponseRange)
    /\ UNCHANGED <<retry_attempts, rate_limiter, pc, call, request, attempt,
                   error_history, sleep_ms, tokens, wire, last_outcome,
                   rpc_result, result, probe, by_identity, builder>>

SpecData == InitData /\ [][ProcessResponse]_vars

Processed == production.tag = "Ok"

(***************************************************************************)
(* The analytics of one processed response                                 *)
(***************************************************************************)
\* the entry of byIdentity a validator record was made from
EntryOf(v) == by_identity[v.pubkey]

\* max(0, assigned - produced) of an entry
RefMissed(e) == IF e[1] > e[2] THEN e[1] - e[2] ELSE 0

\* 100 * missed / assigned of an entry, 0 when nothing was assigned
RefRate(e) == IF e[1] > 0 THEN Ratio(100 * RefMissed(e), e[1]) ELSE F64(0)

Indices(s) == 1..Len(s)

\* C13: a response whose byIdentity map is empty yields the NoData error,
\* carrying the slot range of the response, and nothing else: no validators,
\* statistics, distribution, health or snapshots.
C13_EmptyMapIsNoData ==
    (by_identity = <<>> /\ production.tag # "-") =>
        /\ production.tag = "Err"
        /\ production.err.kind = "NoData"
        /\ production.err.range = ResponseRange
        /\ production.validators = <<>>
        /\ production.statistics = <<>>
        /\ production.distribution = <<>>
        /\ production.network_health = <<>>
        /\ production.performance_snapshots = <<>>

\* C13 witness: the empty map was processed and NoData came back.
C13_Witness ==
    /\ by_identity = <<>>
    /\ production.tag = "Err"
    /\ production.err.kind = "NoData"
    /\ production.err.range = ResponseRange

\* C14: every validator record has missed_slots = max(0, assigned - produced),
\* also when produced > assigned, and skip_rate_percent = 100 * missed /
\* assigned, which lies in [0, 100] and is 0 when assigned = 0; a (0, 0)
\* validator is neither perfect nor concerning.
C14_SkipRateOfRecord ==
    Processed =>
        /\ Len(production.validators) = Len(by_identity)
        /\ \A i \in Indices(production.validators) :
               LET v == production.validators[i]
                   rate == v.skip_rate_percent
               IN  /\ v.pubkey \in Indices(by_identity)
                   /\ v.leader_slots = EntryOf(v)[1]
                   /\ v.blocks_produced = EntryOf(v)[2]
                   /\ v.missed_slots = RefMissed(EntryOf(v))
                   /\ v.missed_slots >= 0
                   /\ v.leader_slots > 0 =>
                          rate[1] * v.leader_slots = 100 * v.missed_slots * rate[2]
                   /\ v.leader_slots = 0 => rate = F64(0)
                   /\ Ge(rate, F64(0)) /\ ~Gt(rate, F64(100))
                   /\ (v.leader_slots = 0 /\ v.blocks_produced = 0) =>
                          ~is_perfect(v) /\ ~is_concerning(v)
        /\ (\A i \in Indices(by_identity) : by_identity[i] = <<0, 0>>) =>
               /\ production.statistics.perfect_validators = 0
               /\ production.statistics.concerning_validators = 0

\* C14 witness: a record with more blocks produced than slots assigned came
\* out with no missed slot and rate 0, next to a (0, 0) record.
C14_Witness ==
    /\ Processed
    /\ \E i \in Indices(production.validators) :
           LET v == production.validators[i]
           IN  /\ v.blocks_produced > v.leader_slots
               /\ v.missed_slots = 0
               /\ v.skip_rate_percent = F64(0)
    /\ \E i \in Indices(production.validators) :
           /\ production.validators[i].leader_slots = 0
           /\ production.validators[i].blocks_produced = 0

\* C15: the validator counts of the nine distribution buckets add up to
\* total_validators, every validator being counted in exactly one bucket,
\* and the buckets' total_slots add up to total_leader_slots.
C15_BucketsPartition ==
    Processed =>
        LET buckets == production.distribution.buckets
        IN  /\ Len(buckets) = 9
            /\ sum([b \in Indices(buckets) |-> buckets[b].validator_count])
                   = production.statistics.total_validators
            /\ sum([b \in Indices(buckets) |-> buckets[b].total_slots])
                   = production.statistics.total_leader_slots
            /\ \A i \in Indices(production.validators) :
                   Cardinality({b \in Indices(bucket_ranges) :
                       in_bucket(production.validators[i], bucket_ranges[b])}) = 1

\* the ascending skip rates of the processed validators
SortedRates == skip_rates_of(production.validators)

\* element floor((n - 1) * p / 100) of the sorted rates, counted from 0
NearestRank(p) == SortedRates[((Len(SortedRates) - 1) * p) \div 100 + 1]

ScenarioA ==
    /\ Len(by_identity) = 4
    /\ {by_identity[i] : i \in Indices(by_identity)}
           = {<<100, 100>>, <<100, 98>>, <<100, 90>>, <<100, 80>>}

\* C17: the totals are the sums over the validators, overall_skip_rate is
\* 100 * missed / slots of the totals (0 without slots), the average is the
\* mean of the validators' rates, the median the middle sorted rate (the mean
\* of the two middle ones for an even count), perfect counts rate = 0 with
\* slots > 0 and concerning counts rate > 5; Scenario A gives 400 slots, 32
\* missed, overall 8, median 6, average 8, 1 perfect, 2 concerning and a
\* 95th percentile of 10.
C17_AggregatesMatchReference ==
    Processed =>
        LET stats == production.statistics
            n == Len(by_identity)
            slots == sum([i \in Indices(by_identity) |-> by_identity[i][1]])
            produced == sum([i \in Indices(by_identity) |-> by_identity[i][2]])
            missed == sum([i \in Indices(by_identity) |-> RefMissed(by_identity[i])])
            rates == [i \in Indices(by_identity) |-> RefRate(by_identity[i])]
            mid == n \div 2
        IN  /\ stats.total_validators = n
            /\ stats.total_leader_slots = slots
            /\ stats.total_blocks_produced = produced
            /\ stats.total_missed_slots = missed
            /\ stats.overall_skip_rate_percent =
                   (IF slots > 0 THEN Ratio(100 * missed, slots) ELSE F64(0))
            /\ Times(stats.average_skip_rate_percent, n) = sum_f64(rates)
            /\ stats.median_skip_rate_percent =
                   (IF n % 2 = 1 THEN SortedRates[mid + 1]
                    ELSE Over(Plus(SortedRates[mid], SortedRates[mid + 1]), 2))
            /\ stats.perfect_validators =
                   Cardinality({i \in Indices(by_identity) :
                       rates[i] = F64(0) /\ by_identity[i][1] > 0})
            /\ stats.concerning_validators =
                   Cardinality({i \in Indices(by_identity) : Gt(rates[i], F64(5))})
            /\ ScenarioA =>
                   /\ stats.total_leader_slots = 400
                   /\ stats.total_missed_slots = 32
                   /\ stats.overall_skip_rate_percent = F64(8)
                   /\ stats.median_skip_rate_percent = F64(6)
                   /\ stats.average_skip_rate_percent = F64(8)
                   /\ stats.perfect_validators = 1
                   /\ stats.concerning_validators = 2
                   /\ stats.skip_rate_95th_percentile = F64(10)

\* C17 witness: Scenario A was processed and gave its figures.
C17_Witness ==
    /\ Processed
    /\ ScenarioA
    /\ production.statistics.total_leader_slots = 400
    /\ production.statistics.total_missed_slots = 32
    /\ production.statistics.median_skip_rate_percent = F64(6)
    /\ production.statistics.skip_rate_95th_percentile = F64(10)

\* every validator of the response has 100 slots and produced 95 blocks
AllAtBoundary ==
    /\ by_identity # <<>>
    /\ \A i \in Indices(by_identity) : by_identity[i] = <<100, 95>>

\* C18: at a skip rate of exactly 5 is_concerning is false while the
\* category (slots >= 10) is Concerning; a network of validators all at
\* (100, 95) has overall_skip_rate 5, no concerning and no offline validator
\* and no skip-rate alert, and every snapshot is Concerning.
C18_BoundaryFivePercent ==
    Processed =>
        /\ \A i \in Indices(production.validators) :
               LET v == production.validators[i]
               IN  v.skip_rate_percent = F64(5) =>
                       /\ ~is_concerning(v)
                       /\ v.leader_slots >= 10 =>
                              production.performance_snapshots[i].performance_category
                                  = "Concerning"
        /\ AllAtBoundary =>
               /\ production.statistics.overall_skip_rate_percent = F64(5)
               /\ production.statistics.concerning_validators = 0
               /\ production.statistics.offline_validators = 0
               /\ \A a \in Indices(production.network_health.alerts) :
                      production.network_health.alerts[a].category # "SkipRate"
               /\ \A i \in Indices(production.performance_snapshots) :
                      production.performance_snapshots[i].performance_category
                          = "Concerning"

\* C18 witness: a network of MaxValidators validators all at (100, 95) was
\* processed.
C18_Witness ==
    /\ Processed
    /\ AllAtBoundary
    /\ Len(by_identity) = MaxValidators
    /\ production.statistics.overall_skip_rate_percent = F64(5)
    /\ production.statistics.concerning_validators = 0
    /\ production.performance_snapshots[1].performance_category = "Concerning"

\* the category of a rate and a slot count, Insufficient first, then the
\* first threshold the rate reaches
RefCategory(rate, slots) ==
    CASE slots < 10 -> "Insufficient"
      [] slots >= 10 /\ Ge(rate, F64(100)) -> "Offline"
      [] slots >= 10 /\ Ge(rate, F64(25)) /\ Lt(rate, F64(100)) -> "Critical"
      [] slots >= 10 /\ Ge(rate, F64(10)) /\ Lt(rate, F64(25)) -> "Poor"
      [] slots >= 10 /\ Ge(rate, F64(5)) /\ Lt(rate, F64(10)) -> "Concerning"
      [] slots >= 10 /\ Ge(rate, F64(3)) /\ Lt(rate, F64(5)) -> "Average"
      [] slots >= 10 /\ Ge(rate, F64(1)) /\ Lt(rate, F64(3)) -> "Good"
      [] slots >= 10 /\ Gt(rate, F64(0)) /\ Lt(rate, F64(1)) -> "Excellent"
      [] slots >= 10 /\ ~Gt(rate, F64(0)) -> "Perfect"

\* C19: the category of a validator is Insufficient when it has fewer than
\* 10 slots, whatever its rate, and otherwise the first of Offline (>= 100),
\* Critical (>= 25), Poor (>= 10), Concerning (>= 5), Average (>= 3), Good
\* (>= 1), Excellent (> 0), Perfect; there is one snapshot per validator, in
\* the order of the validators array, carrying that category.
C19_SnapshotCategories ==
    Processed =>
        /\ Len(production.performance_snapshots) = Len(production.validators)
        /\ \A i \in Indices(production.validators) :
               LET v == production.validators[i]
                   s == production.performance_snapshots[i]
               IN  /\ s.validator_pubkey = v.pubkey
                   /\ s.leader_slots = v.leader_slots
                   /\ s.skip_rate_percent = v.skip_rate_percent
                   /\ s.performance_category =
                          RefCategory(RefRate(EntryOf(v)), EntryOf(v)[1])

\* C19 witness: snapshots of a validator with fewer than 10 slots and rate
\* 100, categorised Insufficient, and of an Offline validator.
C19_Witness ==
    /\ Processed
    /\ \E i \in Indices(production.performance_snapshots) :
           LET s == production.performance_snapshots[i]
           IN  /\ s.leader_slots < 10
               /\ s.skip_rate_percent = F64(100)
               /\ s.performance_category = "Insufficient"
    /\ \E i \in Indices(production.performance_snapshots) :
           production.performance_snapshots[i].performance_category = "Offline"

\* the three components of the health score, summed
RefScoreSum ==
    LET stats == production.statistics
        capped == IF Gt(stats.overall_skip_rate_percent, F64(5)) THEN F64(5)
                  ELSE stats.overall_skip_rate_percent
        skipComponent == Times(Over(Minus(F64(5), capped), 5), 40)
        efficiencyComponent ==
            IF stats.total_leader_slots > 0
            THEN Ratio(30 * stats.total_blocks_produced, stats.total_leader_slots)
            ELSE F64(0)
        validatorHealthComponent ==
            Ratio(30 * (stats.total_validators - stats.concerning_validators),
                  stats.total_validators)
    IN  Plus(Plus(skipComponent, efficiencyComponent), validatorHealthComponent)

\* C20: the health score is the sum of the skip, efficiency and validator
\* health components clamped into [0, 100], also when records have more
\* blocks produced than slots assigned or no slots at all, and the status is
\* Healthy iff score >= 90, Warning iff 75 <= score < 90, Degraded iff
\* 50 <= score < 75, Critical iff score < 50.
C20_HealthScoreAndStatus ==
    Processed =>
        LET score == production.network_health.health_score
            status == production.network_health.status
        IN  /\ score = (IF Gt(RefScoreSum, F64(100)) THEN F64(100)
                        ELSE IF Lt(RefScoreSum, F64(0)) THEN F64(0)
                        ELSE RefScoreSum)
            /\ Ge(score, F64(0)) /\ ~Gt(score, F64(100))
            /\ status \in {"Healthy", "Warning", "Degraded", "Critical"}
            /\ status = "Healthy" <=> Ge(score, F64(90))
            /\ status = "Warning" <=> Ge(score, F64(75)) /\ Lt(score, F64(90))
            /\ status = "Degraded" <=> Ge(score, F64(50)) /\ Lt(score, F64(75))
            /\ status = "Critical" <=> Lt(score, F64(50))

\* C20 witness: a network whose records produced more blocks than they had
\* slots: the components add up to more than 100 and the score is 100.
C20_Witness ==
    /\ Processed
    /\ \A i \in Indices(by_identity) : by_identity[i][2] > by_identity[i][1]
    /\ Gt(RefScoreSum, F64(100))
    /\ production.network_health.health_score = F64(100)
    /\ production.network_health.status = "Healthy"

(***************************************************************************)
(* Client construction (client.rs 21-107, 1125-1219; config.rs)            *)
(*                                                                         *)
(* An endpoint string is kept as the pieces the code looks at: its scheme  *)
(* prefix first, then the parts `contains` searches for.  A header name or *)
(* value is a sequence of characters.  Durations are whole seconds and a   *)
(* rate limiter is its requests per second, 0 for None.                    *)
(***************************************************************************)
MaxCalls == 3

\* ClientConfig::default().rpc_endpoint
DefaultEndpoint == <<"https://", "api.", "mainnet-beta.solana.com">>

Endpoints ==
    {<<>>, <<"not-a-url">>, DefaultEndpoint, <<"https://", "test.com">>,
     <<"http://", "localhost:8899">>, <<"https://", "rpc.", "helius", ".xyz">>,
     <<"https://", "api.", "quicknode", ".com">>,
     <<"https://", "solana-mainnet.g.", "alchemy", ".com">>}

\* str::starts_with, str::contains
starts_with(text, prefix) == text # <<>> /\ text[1] = prefix
contains(text, part) == \E i \in 1..Len(text) : text[i] = part

\* HeaderName::from_bytes(..).is_ok(): token characters only
header_name_ok(text) ==
    /\ text # <<>>
    /\ \A i \in 1..Len(text) : text[i] \in DOMAIN DigitVal \cup {"+", "-", ".", "x"}

\* HeaderValue::from_str(..).is_ok(): visible ASCII only
header_value_ok(text) == \A i \in 1..Len(text) : text[i] \in VisibleAscii

\* custom headers a caller adds: a valid one, one whose name holds a space
\* and one whose value holds the non-ASCII character U+00E9
CustomHeaders ==
    {[name |-> <<"x", "-", "1">>, value |-> <<"1">>],
     [name |-> <<"x", " ", "1">>, value |-> <<"1">>],
     [name |-> <<"x", "-", "2">>, value |-> <<"0xE9">>]}

\* impl Default for ClientConfig
default_config ==
    [rpc_endpoint |-> DefaultEndpoint, timeout |-> 30, retry_attempts |-> 3,
     rate_limiter |-> 0, max_concurrent_requests |-> 10, headers |-> {}]

\* rate_limit: NonZeroU32::try_from fails for 0 and the limiter is left alone
rate_limit(config, requests_per_second) ==
    IF requests_per_second # 0
    THEN [config EXCEPT !.rate_limiter = requests_per_second]
    ELSE config

\* add_header: HashMap::insert replaces the value of an existing name
add_header(config, header) ==
    [config EXCEPT !.headers =
        {h \in config.headers : h.name # header.name} \cup {header}]

\* ClientConfigBuilder::new().timeout(t).retry_attempts(n).rate_limit(r)
\*     .max_concurrent_requests(m)
preset(secs, attempts, requests_per_second, max) ==
    [rate_limit([default_config EXCEPT !.timeout = secs, !.retry_attempts = attempts],
                requests_per_second)
        EXCEPT !.max_concurrent_requests = max]

public_rpc_config == preset(60, 5, 2, 5)
private_rpc_config == preset(30, 3, 10, 20)
high_frequency_config == preset(15, 2, 50, 50)
batch_processing_config == preset(120, 5, 5, 100)

\* ClientConfig::auto_config, with helius_config, quicknode_config and
\* alchemy_config
auto_config(rpc_endpoint) ==
    [(IF contains(rpc_endpoint, "mainnet-beta.solana.com") THEN public_rpc_config
      ELSE IF contains(rpc_endpoint, "helius") THEN preset(30, 3, 20, 25)
      ELSE IF contains(rpc_endpoint, "quicknode") THEN preset(30, 3, 15, 20)
      ELSE IF contains(rpc_endpoint, "alchemy") THEN preset(30, 3, 25, 30)
      ELSE private_rpc_config)
        EXCEPT !.rpc_endpoint = rpc_endpoint]

\* BlockProductionError::config_error
ConfigErr == [ErrBase EXCEPT !.kind = "Config"]

\* BlockProductionClient::from_config: only the headers are looked at
from_config(config) ==
    IF \E h \in config.headers : ~header_name_ok(h.name) \/ ~header_value_ok(h.value)
    THEN ErrResult(ConfigErr)
    ELSE OkValue(config)

\* BlockProductionClient::new
new(rpc_endpoint) ==
    IF rpc_endpoint = <<>> THEN ErrResult(ConfigErr)
    ELSE IF ~starts_with(rpc_endpoint, "http://") /\ ~starts_with(rpc_endpoint, "https://")
    THEN ErrResult(ConfigErr)
    ELSE from_config([default_config EXCEPT !.rpc_endpoint = rpc_endpoint])

\* one call of a ClientBuilder chain
BuilderCall(method, arg) == [method |-> method, arg |-> arg]

Presets ==
    {"public_rpc_config", "private_rpc_config", "high_frequency_config",
     "batch_processing_config"}

BuilderCalls ==
    {BuilderCall("rpc_endpoint", e) : e \in {<<>>, <<"not-a-url">>, <<"https://", "test.com">>}}
    \cup {BuilderCall("timeout", 45)}
    \cup {BuilderCall("retry_attempts", n) : n \in {0, 4}}
    \cup {BuilderCall("rate_limit", r) : r \in {0, 7}}
    \cup {BuilderCall("max_concurrent_requests", 15)}
    \cup {BuilderCall("add_header", h) : h \in CustomHeaders}
    \cup {BuilderCall(p, 0) : p \in Presets}
    \cup {BuilderCall("auto_config", e) :
              e \in {DefaultEndpoint, <<"https://", "rpc.", "helius", ".xyz">>}}

apply_PresetsMerge(config, c) ==
    CASE c.method = "rpc_endpoint" -> [config EXCEPT !.rpc_endpoint = c.arg]
      [] c.method = "timeout" -> [config EXCEPT !.timeout = c.arg]
      [] c.method = "retry_attempts" -> [config EXCEPT !.retry_attempts = c.arg]
      [] c.method = "rate_limit" -> rate_limit(config, c.arg)
      [] c.method = "max_concurrent_requests" ->
             [config EXCEPT !.max_concurrent_requests = c.arg]
      [] c.method = "add_header" -> add_header(config, c.arg)
      [] c.method = "public_rpc_config" ->
             [public_rpc_config EXCEPT !.rpc_endpoint = config.rpc_endpoint,
                                       !.headers = config.headers]
      [] c.method = "private_rpc_config" ->
             [private_rpc_config EXCEPT !.rpc_endpoint = config.rpc_endpoint,
                                        !.headers = config.headers]
      [] c.method = "high_frequency_config" ->
             [high_frequency_config EXCEPT !.rpc_endpoint = config.rpc_endpoint,
                                           !.headers = config.headers]
      [] c.method = "batch_processing_config" ->
             [batch_processing_config EXCEPT !.rpc_endpoint = config.rpc_endpoint,
                                             !.headers = config.headers]
      [] c.method = "auto_config" ->
             [auto_config(c.arg) EXCEPT !.headers = config.headers]

\* the body of the ClientBuilder method of a call
apply(config, c) ==
    CASE c.method = "rpc_endpoint" -> [config EXCEPT !.rpc_endpoint = c.arg]
      [] c.method = "timeout" -> [config EXCEPT !.timeout = c.arg]
      [] c.method = "retry_attempts" -> [config EXCEPT !.retry_attempts = c.arg]
      [] c.method = "rate_limit" -> rate_limit(config, c.arg)
      [] c.method = "max_concurrent_requests" ->
             [config EXCEPT !.max_concurrent_requests = c.arg]
      [] c.method = "add_header" -> add_header(config, c.arg)
      [] c.method = "public_rpc_config" -> public_rpc_config
      [] c.method = "private_rpc_config" -> private_rpc_config
      [] c.method = "high_frequency_config" -> high_frequency_config
      [] c.method = "batch_processing_config" -> batch_processing_config
      [] c.method = "auto_config" -> auto_config(c.arg)

(***************************************************************************)
(* SpecBuild: a caller constructs a client                                 *)
(***************************************************************************)
\* ClientBuilder::new()
InitBuild ==
    /\ retry_attempts = default_config.retry_attempts
    /\ rate_limiter = FALSE
    /\ pc = "idle"
    /\ call = NoCall
    /\ request = NoRequest
    /\ attempt = 0
    /\ error_history = <<>>
    /\ sleep_ms = 0
    /\ tokens = 0
    /\ wire = <<>>
    /\ last_outcome = NoOutcome
    /\ rpc_result = NoResult
    /\ result = NoResult
    /\ probe = NoProbe
    /\ by_identity = <<>>
    /\ production = NoProduction
    /\ builder = [config |-> default_config, calls |-> <<>>]

\* the client, when one was made, holds the configuration
Construct(op, res) ==
    /\ call' = [op |-> op, params |-> DefaultParams]
    /\ result' = res
    /\ IF res.tag = "Ok"
       THEN /\ retry_attempts' = res.value.retry_attempts
            /\ rate_limiter' = (res.value.rate_limiter # 0)
       ELSE UNCHANGED <<retry_attempts, rate_limiter>>
    /\ UNCHANGED <<pc, request, attempt, error_history, sleep_ms, tokens, wire,
                   last_outcome, rpc_result, probe, by_identity, production>>

\* builder.<method>(<arg>)
CallBuilder ==
    /\ result.tag = "none"
    /\ Len(builder.calls) < MaxCalls
    /\ \E c \in BuilderCalls :
           builder' = [config |-> apply(builder.config, c),
                       calls |-> Append(builder.calls, c)]
    /\ UNCHANGED <<retry_attempts, rate_limiter, pc, call, request, attempt,
                   error_history, sleep_ms, tokens, wire, last_outcome,
                   rpc_result, result, probe, by_identity, production>>

\* builder.build()
Build ==
    /\ result.tag = "none"
    /\ Construct("build", from_config(builder.config))
    /\ UNCHANGED builder

\* BlockProductionClient::from_config(config), the configuration having been
\* made by a ClientConfigBuilder with the same setters
FromConfig ==
    /\ result.tag = "none"
    /\ \A i \in 1..Len(builder.calls) :
           builder.calls[i].method \notin Presets \cup {"auto_config"}
    /\ Construct("from_config", from_config(builder.config))
    /\ UNCHANGED builder

\* BlockProductionClient::new(rpc_endpoint); the configuration is the one
\* `new` builds from the endpoint
New ==
    /\ result.tag = "none"
    /\ builder.calls = <<>>
    /\ \E e \in Endpoints :
           /\ builder' = [config |-> [default_config EXCEPT !.rpc_endpoint = e],
                          calls |-> <<BuilderCall("rpc_endpoint", e)>>]
           /\ Construct("new", new(e))

NextBuild == CallBuilder \/ Build \/ FromConfig \/ New

SpecBuild == InitBuild /\ [][NextBuild]_vars

Constructed == result.tag # "none"

\* the configuration fails one of the checks made at construction
InvalidConfig(config) ==
    \/ config.rpc_endpoint = <<>>
    \/ config.rpc_endpoint[1] \notin {"http://", "https://"}
    \/ \E h \in config.headers : ~header_name_ok(h.name) \/ ~header_value_ok(h.value)

\* C21: on every construction path (new, from_config, ClientBuilder::build)
\* an empty endpoint, an endpoint without an http:// or https:// prefix or an
\* invalid header name or value yields a Config error (a configuration
\* error, not retryable) and no client.
C21_ValidatedAtConstruction ==
    (Constructed /\ InvalidConfig(builder.config)) =>
        /\ result.tag = "Err"
        /\ result.err.kind = "Config"
        /\ is_config_error(result.err)
        /\ ~is_retryable(result.err)

Built == call.op = "build" /\ result.tag = "Ok"

\* the positions of the builder calls of the given methods
CallsOf(methods) == {i \in 1..Len(builder.calls) : builder.calls[i].method \in methods}

Last(positions) == CHOOSE i \in positions : \A j \in positions : j <= i

\* C22: when the last rate setting of a builder chain is rate_limit(0), or
\* the chain sets no rate and uses no preset, the built configuration has no
\* rate limiter; when the last rate setting is rate_limit(r) with r > 0 it
\* has one of r requests per second.
C22_ZeroRateIsPassThrough ==
    Built =>
        LET rates == CallsOf({"rate_limit"})
            presets == CallsOf(Presets \cup {"auto_config"})
        IN /\ (rates = {} /\ presets = {}) => result.value.rate_limiter = 0
           /\ (rates # {} /\ builder.calls[Last(rates)].arg = 0) =>
                  /\ result.value.rate_limiter = 0
                  /\ ~rate_limiter
           /\ (rates # {} /\ builder.calls[Last(rates)].arg # 0) =>
                  \/ result.value.rate_limiter = builder.calls[Last(rates)].arg
                  \/ \E i \in presets : i > Last(rates)

\* the timeout, retry count, rate and concurrency the documentation of each
\* preset states; the rate of auto_config depends on its endpoint
PresetTable(c) ==
    CASE c.method = "public_rpc_config" -> <<60, 5, 2, 5>>
      [] c.method = "private_rpc_config" -> <<30, 3, 10, 20>>
      [] c.method = "high_frequency_config" -> <<15, 2, 50, 50>>
      [] c.method = "batch_processing_config" -> <<120, 5, 5, 100>>
      [] c.arg = DefaultEndpoint -> <<60, 5, 2, 5>>
      [] OTHER -> <<30, 3, 20, 25>>

\* the argument of the last call of a method after position i, or the
\* fallback when there is none
Setting(method, i, fallback) ==
    LET later == {j \in CallsOf({method}) : j > i}
    IN IF later = {} THEN fallback ELSE builder.calls[Last(later)].arg

DebugReturned ==
    /\ pc = "done"
    /\ call.op = "fetch_block_production_debug"
    /\ result.tag = "Ok"

\* C23: the ResponseMetadata of a successful fetch_block_production_debug
\* reports in retry_attempts the number of retries the request needed (the
\* sends after the first) and, when no limiter is configured and the first
\* send succeeded, rate_limited = false.
C23_MetadataReportsAttempts ==
    DebugReturned =>
        /\ result.meta.present
        /\ result.meta.retry_attempts = Len(wire) - 1
        /\ (~rate_limiter /\ Len(wire) = 1) => ~result.meta.rate_limited

(***************************************************************************)
(* The code after the retry loop                                           *)
(***************************************************************************)
\* C28: with retry_attempts = 0 make_rpc_request sends nothing and returns
\* RetryExhausted with attempts = 0, an empty error_history and Timeout as
\* last_error; with retry_attempts >= 1 it never returns RetryExhausted.
C28_ExhaustedOnlyWithoutAttempts ==
    RpcReturned =>
        /\ retry_attempts = 0 =>
              /\ wire = <<>>
              /\ rpc_result.tag = "Err"
              /\ rpc_result.err.kind = "RetryExhausted"
              /\ rpc_result.err.attempts = 0
              /\ rpc_result.err.error_history = <<>>
              /\ rpc_result.err.last_error = "Timeout"
        /\ retry_attempts >= 1 => rpc_result.err.kind # "RetryExhausted"

C28_Witness ==
    /\ RpcReturned
    /\ retry_attempts = 0
    /\ rpc_result.err.kind = "RetryExhausted"

(***************************************************************************)
(* The connectivity probe                                                  *)
(***************************************************************************)
ProbeReturned == pc = "done" /\ call.op = "test_connection"

\* what test_connection does with what make_rpc_request returned
ProbeWrapsAndReports ==
    /\ rpc_result.tag = "Err" =>
          /\ result.tag = "Err"
          /\ result.err.kind = "ConnectionFailed"
          /\ result.err.wrapped = rpc_result.err.kind
          /\ is_retryable(result.err)
          /\ is_transient(result.err)
          /\ ~is_config_error(result.err)
          /\ category(result.err) = "Network"
    /\ (result.tag = "Ok" /\ result.value = "true") <=>
          (rpc_result.tag = "Ok" /\ rpc_result.body.result # "absent")
    /\ (rpc_result.tag = "Ok" /\ rpc_result.body.result = "absent"
           /\ ~rpc_result.body.has_error) =>
          (result.tag = "Ok" /\ result.value = "false")

\* C27: every call of test_connection ends in Ok(true), Ok(false) or a
\* ConnectionFailed error.  A failure of make_rpc_request, terminal or not,
\* comes back as ConnectionFailed wrapping it, which is retryable and
\* transient, not a configuration error, and of category Network; Ok(true)
\* is returned exactly when the parsed 2xx body has a result field and
\* Ok(false) when it has neither result nor error.
C27_ProbeFailureIsConnectionFailed ==
    ProbeReturned =>
        /\ result.tag \in {"Ok", "Err"}
        /\ ProbeWrapsAndReports

(***************************************************************************)
(* Skip rate, efficiency and the alerts                                    *)
(***************************************************************************)
HasAlert(sev, cat) ==
    \E i \in Indices(production.network_health.alerts) :
        /\ production.network_health.alerts[i].severity = sev
        /\ production.network_health.alerts[i].category = cat

\* no record has more blocks produced than slots assigned, and there are slots
WithinAssigned ==
    /\ \A i \in Indices(by_identity) : by_identity[i][2] <= by_identity[i][1]
    /\ \E i \in Indices(by_identity) : by_identity[i][1] > 0

C30_HealthyWithCriticalAlert ==
    /\ Processed
    /\ ~WithinAssigned
    /\ HasAlert("Critical", "SkipRate")
    /\ production.network_health.status = "Healthy"

(***************************************************************************)
(* SpecFleet: responses of networks with more than twenty validators       *)
(***************************************************************************)
MaxFleet == 21

\* byIdentity maps of `small` offline validators of 5 slots and `large`
\* validators of 100 slots at 10%, with or without a validator of `carrier`
\* slots and all blocks produced, whose slots put the others' share around
\* 2% and 5%, and with or without a validator of 2000 slots
Fleets ==
    {[i \in 1..small |-> <<5, 0>>] \o [i \in 1..large |-> <<100, 90>>]
        \o (IF carrier = 0 THEN <<>> ELSE << <<carrier, carrier>> >>) \o bad :
        small \in {0, 10, MaxFleet - 1, MaxFleet},
        large \in {0, 10, 11},
        carrier \in {0, 100, 1995, 2000, 5145, 6000, 21850, 56350, 60000},
        bad \in {<<>>, << <<2000, 1>> >>, << <<2000, 1800>> >>}}

InitFleet ==
    /\ retry_attempts = 1
    /\ rate_limiter = FALSE
    /\ pc = "idle"
    /\ call = NoCall
    /\ request = NoRequest
    /\ attempt = 0
    /\ error_history = <<>>
    /\ sleep_ms = 0
    /\ tokens = 0
    /\ wire = <<>>
    /\ last_outcome = NoOutcome
    /\ rpc_result = NoResult
    /\ result = NoResult
    /\ probe = NoProbe
    /\ by_identity \in Fleets
    /\ production = NoProduction
    /\ builder = NoBuilder

SpecFleet == InitFleet /\ [][ProcessResponse]_vars

\* the assigned slots of the entries of byIdentity at the given positions
AssignedOver(positions) ==
    sum([i \in Indices(by_identity) |->
            IF i \in positions THEN by_identity[i][1] ELSE 0])

\* the validators with a skip rate above 5%
RefConcerning == {i \in Indices(by_identity) : Gt(RefRate(by_identity[i]), F64(5))}

\* the alerts the rules give for byIdentity, in the order of the rules
RefAlerts ==
    LET all == Indices(by_identity)
        slots == AssignedOver(all)
        missed == sum([i \in all |-> RefMissed(by_identity[i])])
        produced == sum([i \in all |-> by_identity[i][2]])
        concerningSlots == AssignedOver(RefConcerning)
        significant == Cardinality({i \in RefConcerning : by_identity[i][1] >= 50})
    IN  (IF slots > 0 /\ 100 * missed > 5 * slots
         THEN <<[severity |-> "Critical", category |-> "SkipRate"]>> ELSE <<>>)
        \o (IF /\ Cardinality(RefConcerning) > 20
                /\ (100 * concerningSlots > 2 * slots \/ significant > 10)
             THEN <<[severity |-> IF 100 * concerningSlots > 5 * slots
                                  THEN "Critical" ELSE "Warning",
                     category |-> "ValidatorCount"]>>
             ELSE <<>>)
        \o (IF slots = 0 \/ 100 * produced < 95 * slots
             THEN <<[severity |-> "Warning", category |-> "NetworkEfficiency"]>>
             ELSE <<>>)
        \o (IF \E i \in all : /\ Gt(RefRate(by_identity[i]), F64(10))
                                /\ by_identity[i][1] > 1000
             THEN <<[severity |-> "Critical", category |-> "ValidatorCount"]>>
             ELSE <<>>)

\* C25: the alerts of a fetch are those its data give by the four rules and
\* no others: Critical when the overall skip rate is above 5; the
\* concerning-validators alert when more than 20 validators are concerning
\* and their share of the leader slots is above 2% or more than 10 of them
\* have at least 50 slots, Critical when the share is above 5% and Warning
\* otherwise; Warning when the efficiency is below 95; Critical when some
\* validator has a rate above 10% and more than 1000 slots.
C25_AlertRules ==
    Processed =>
        /\ production.network_health.alerts = RefAlerts
        /\ Len(production.network_health.alerts) <= 4

\* C25 witness: 21 concerning validators holding between 2% and 5% of the
\* slots raise the Warning, and no validator is a high-impact one
C25_Witness ==
    /\ Processed
    /\ Cardinality(RefConcerning) = 21
    /\ HasAlert("Warning", "ValidatorCount")
    /\ ~HasAlert("Critical", "ValidatorCount")

(***************************************************************************)
(* SpecViews: a derived view over a fetched response                       *)
(***************************************************************************)
MaxViewed == 3

\* byIdentity maps of entries at 0%, 0.5%, 1%, 3%, 5% and 6%
ViewMaps ==
    UNION {[1..n -> {<<100, 100>>, <<1000, 995>>, <<100, 99>>, <<100, 97>>,
                     <<100, 95>>, <<100, 94>>}] : n \in 0..MaxViewed}

\* the filter and the sort of get_moderate_performers
get_moderate_performers(validators) ==
    sort_by_skip_rate(
        SelectSeq(validators,
            LAMBDA v : Gt(v.skip_rate_percent, F64(0)) /\ ~Gt(v.skip_rate_percent, F64(5))))

InitViews ==
    /\ retry_attempts = 1
    /\ rate_limiter = FALSE
    /\ pc = "idle"
    /\ call = NoCall
    /\ request = NoRequest
    /\ attempt = 0
    /\ error_history = <<>>
    /\ sleep_ms = 0
    /\ tokens = 0
    /\ wire = <<>>
    /\ last_outcome = NoOutcome
    /\ rpc_result = NoResult
    /\ result = NoResult
    /\ probe = NoProbe
    /\ by_identity \in ViewMaps
    /\ production = NoProduction
    /\ builder = NoBuilder

\* get_moderate_performers(): `fetch_block_production().await?`, the
\* response being byIdentity, then the view over data.validators
GetModeratePerformers ==
    /\ production.tag = "-"
    /\ LET data == process_value(by_identity, ResponseRange)
       IN  /\ production' = data
           /\ result' = IF data.tag = "Ok"
                         THEN OkValue(get_moderate_performers(data.validators))
                         ELSE ErrResult(data.err)
    /\ call' = [op |-> "get_moderate_performers", params |-> DefaultParams]
    /\ UNCHANGED <<retry_attempts, rate_limiter, pc, request, attempt,
                   error_history, sleep_ms, tokens, wire, last_outcome,
                   rpc_result, probe, by_identity, builder>>

SpecViews == InitViews /\ [][GetModeratePerformers]_vars

Viewed == call.op = "get_moderate_performers" /\ result.tag = "Ok"

\* C26: get_moderate_performers returns exactly the fetched validators
\* whose skip rate is between 1% and 5%, each once, in ascending order of
\* skip rate; none below 1% is returned.
C26_ModerateBetweenOneAndFive ==
    Viewed =>
        LET view == result.value
        IN  /\ {view[k].pubkey : k \in Indices(view)} =
                   {i \in Indices(by_identity) :
                       /\ Ge(RefRate(by_identity[i]), F64(1))
                       /\ ~Gt(RefRate(by_identity[i]), F64(5))}
            /\ \A k, l \in Indices(view) :
                   k < l => /\ view[k].pubkey # view[l].pubkey
                            /\ ~Gt(view[k].skip_rate_percent, view[l].skip_rate_percent)

(***************************************************************************)
(* SpecOrder: the same response processed again                            *)
(*                                                                         *)
(* byIdentity is a HashMap: each deserialization of the same response      *)
(* iterates its entries in an order of its own.                            *)
(***************************************************************************)
MaxOrdered == 3

\* byIdentity maps of entries at 10% (with 100 and with 50 slots), 5% and 0%
OrderMaps ==
    UNION {[1..n -> {<<100, 90>>, <<50, 45>>, <<100, 95>>, <<100, 100>>}] :
              n \in 0..MaxOrdered}

\* the orders `for (pubkey, slots) in by_identity` can visit n keys in
IterationOrders(n) ==
    {order \in [1..n -> 1..n] : \A i, j \in 1..n : order[i] = order[j] => i = j}

\* process_block_production_response when the map is iterated in the given
\* order: the k-th record made is that of the key order[k]
process_in_order(map, order, slot_range) ==
    LET data == process_value([k \in 1..Len(map) |-> map[order[k]]], slot_range)
        key(records, field) ==
            [k \in 1..Len(records) |->
                [records[k] EXCEPT ![field] = order[records[k][field]]]]
    IN  IF data.tag = "Ok"
        THEN [data EXCEPT
                 !.validators = key(data.validators, "pubkey"),
                 !.performance_snapshots =
                     key(data.performance_snapshots, "validator_pubkey")]
        ELSE data

InitOrder ==
    /\ retry_attempts = 1
    /\ rate_limiter = FALSE
    /\ pc = "idle"
    /\ call = NoCall
    /\ request = NoRequest
    /\ attempt = 0
    /\ error_history = <<>>
    /\ sleep_ms = 0
    /\ tokens = 0
    /\ wire = <<>>
    /\ last_outcome = NoOutcome
    /\ rpc_result = NoResult
    /\ result = NoResult
    /\ probe = NoProbe
    /\ by_identity \in OrderMaps
    /\ production = NoProduction
    /\ builder = NoBuilder

\* one run of process_block_production_response on the response
ProcessAgain ==
    /\ \E order \in IterationOrders(Len(by_identity)) :
           production' = process_in_order(by_identity, order, ResponseRange)
    /\ UNCHANGED <<retry_attempts, rate_limiter, pc, call, request, attempt,
                   error_history, sleep_ms, tokens, wire, last_outcome,
                   rpc_result, result, probe, by_identity, builder>>

SpecOrder == InitOrder /\ [][ProcessAgain]_vars

\* C24: a second run of process_block_production_response on the same map
\* and slot range yields the same validators and snapshots in the same
\* order and the same statistics, distribution and health as the first,
\* whatever order the map was iterated in.
C24_SameInputSameOutput ==
    [][production.tag # "-" => production' = production]_vars

====
